---- MODULE Spec2Model ----
(***************************************************************************)
(* The sensor registry and event bus of nino (src/src/sensor/mod.rs) as a  *)
(* state machine: the DashMap of sensors, the persistent sled trees, the   *)
(* list of followers with their bounded crossbeam channels, and the        *)
(* threads that call add_virtual.                                          *)
(***************************************************************************)
EXTENDS Integers, Sequences, FiniteSets, TLC

\* ------------------------------------------------------------------ bounds
MaxRetention == 3       \* retention is drawn from 0..MaxRetention
MaxPub == 2             \* publishes per behaviour of Spec
MaxSets == 4            \* accepted samples per behaviour of SpecRing
MaxSubs == 1            \* subscribe calls per behaviour of Spec and SpecAdd
MaxBusSubs == 2         \* subscribe calls per behaviour of SpecBus
MaxThreads == 2         \* threads that may run add_virtual
MaxAdds == 2            \* add_virtual calls per behaviour
MaxBusPub == 2          \* publishes per behaviour of SpecBus, after the first Prefill
Prefill == 24           \* messages the first subscriber of SpecBus holds at the start
MaxLaps == 2            \* the clock runs for this many times the default rate
MaxWorkerPub == 3       \* publishes per behaviour of SpecWorker
MaxRemovePub == 2       \* publishes per behaviour of SpecRemove, after the first Prefill
MaxInputs == 3          \* frames the client writes and bus events, per session
MaxReads == 3           \* calls of receive_package that return, per streaming session
PwmCap == 1             \* capacity of the actuator queue
MaxNr == 64             \* numbers of sensor ids run from 0 to MaxNr
MaxScriptPub == 3       \* publishes per behaviour of SpecScript
NShards == 2            \* shards of the DashMap
MaxLockPub == 2         \* publishes per behaviour of SpecLocks
MaxSnapPub == 2         \* publishes per behaviour of SpecSnap
MaxStartPub == 5        \* publishes per behaviour of SpecStart
MaxRestartPub == 2      \* publishes per behaviour of SpecRestart

\* ------------------------------------------------------- program constants
QueueCap == 25          \* crossbeam_channel::bounded(25)
DefaultVirtRate == 1000 \* rate of a new virtual sensor, and of rate = None
LastBuiltin == 6        \* unwrap_or(6) of next_virt_id; from_usize maps 0..6
MaxPayload == 10485760  \* 1024 * 1024 * 10, the largest data_len accepted
LastMessageId == 6      \* MessageId::Pwm, the last id TryFrom<u16> knows

VARIABLES
    retention,       \* Config::global().retention
    sensor_storage,  \* Sensors.sensor_storage: SensorId -> Sensor
    database,        \* sled trees "sensor-builtin" and "sensor-virtual"
    followers,       \* Sensors.followers: the senders, as channel numbers
    chans,           \* the bounded channels, by channel number
    workers,         \* ids start_virtual_worker was called for, in order
    adding,          \* per thread: where it is inside add_virtual
    virt,            \* per started worker thread: the locals of its closure
    now,             \* the clock Instant::now() reads, in ms
    net,             \* the task of net::handle for one connection
    actuator,        \* the queue behind handle's pwm Sender
    locks,           \* who holds the shards' locks and the two mutexes
    running,         \* per thread: the registry call it is in, lock by lock
    npub,            \* history: how many messages were broadcast so far
    samples,         \* history: per sensor, the samples set accepted
    allocated,       \* history: what each next_virt_id call returned
    call             \* history: the last operation that ran

\* The program's state, and with vars the history variables too.
prog == <<retention, sensor_storage, database, followers, chans, workers, adding>>
vars == <<retention, sensor_storage, database, followers, chans, workers, adding,
          virt, now, net, actuator, locks, running, npub, samples, allocated, call>>

\* What the registry's own operations never touch.
session == <<net, actuator>>
sync == <<locks, running>>
others == <<virt, now, net, actuator, locks, running>>

\* ------------------------------------------------------------ Option<T>
None == <<>>
Some(x) == <<x>>

\* ------------------------------------------------------------- SensorId
Tmp0 == [tag |-> "Tmp0", nr |-> 0]
Tmp1 == [tag |-> "Tmp1", nr |-> 0]
Tmp2 == [tag |-> "Tmp2", nr |-> 0]
Tmp3 == [tag |-> "Tmp3", nr |-> 0]
RPi  == [tag |-> "RPi",  nr |-> 0]
RPM0 == [tag |-> "RPM0", nr |-> 0]
RPM1 == [tag |-> "RPM1", nr |-> 0]
Virtual(n) == [tag |-> "Virtual", nr |-> n]

BuiltinIds == {Tmp0, Tmp1, Tmp2, Tmp3, RPi, RPM0, RPM1}

\* A from_usize without the arms of the built-ins.
from_usize_virtual(nr) == Virtual(nr)

from_usize(nr) ==
    CASE nr = 0 -> Tmp0
      [] nr = 1 -> Tmp1
      [] nr = 2 -> Tmp2
      [] nr = 3 -> Tmp3
      [] nr = 4 -> RPi
      [] nr = 5 -> RPM0
      [] nr = 6 -> RPM1
      [] OTHER  -> Virtual(nr)

to_usize(id) ==
    CASE id = Tmp0 -> 0
      [] id = Tmp1 -> 1
      [] id = Tmp2 -> 2
      [] id = Tmp3 -> 3
      [] id = RPi  -> 4
      [] id = RPM0 -> 5
      [] id = RPM1 -> 6
      [] OTHER     -> id.nr

is_virtual(id) == id.tag = "Virtual"

\* ------------------------------------------------------------------ f64
\* A sample is a finite nonnegative number, or one of the classes the
\* comparisons of set tell apart: negative (-inf included), NaN, +inf.
Fin(n) == [cls |-> "fin", n |-> n]
Neg    == [cls |-> "neg", n |-> 0]
NaN    == [cls |-> "nan", n |-> 0]
PosInf == [cls |-> "inf", n |-> 0]

lt_zero(v) == v.cls = "neg"
is_nan(v)  == v.cls = "nan"

\* --------------------------------------------------------------- Sensor
Sensor(alias, unit, rate, source) ==
    [alias |-> alias, values |-> <<>>, unit |-> unit, rate |-> rate,
     source |-> source, error |-> None]

\* A Sensor whose source is skipped as well.
serialize_without_source(s) ==
    [alias |-> s.alias, unit |-> s.unit, rate |-> s.rate, source |-> None]

\* #[serde(skip)] on values and error: the stored record holds neither.
serialize(s) ==
    [alias |-> s.alias, unit |-> s.unit, rate |-> s.rate, source |-> s.source]

deserialize(d) == Sensor(d.alias, d.unit, d.rate, d.source)

DefaultBuiltin(id) ==
    CASE id \in {Tmp0, Tmp1, Tmp2, Tmp3} -> Sensor(id.tag, "°C", 1000, None)
      [] id = RPi  -> Sensor("RPi", "°C", 3000, None)
      [] id = RPM0 -> Sensor("Rpm0", "RPM", 6000, None)
      [] id = RPM1 -> Sensor("Rpm1", "RPM", 6000, None)

EmptyDb == [builtin |-> <<>>, virtual |-> <<>>]

\* load_saved: the built-ins from the store or their defaults, and every
\* record of the sensor-virtual tree under from_usize of its key.
load_saved(db) ==
    [id \in BuiltinIds \cup {from_usize(k) : k \in DOMAIN db.virtual} |->
        IF id \in BuiltinIds
        THEN IF to_usize(id) \in DOMAIN db.builtin
             THEN deserialize(db.builtin[to_usize(id)])
             ELSE DefaultBuiltin(id)
        ELSE deserialize(db.virtual[to_usize(id)])]

Range(s) == {s[i] : i \in 1..Len(s)}


\* ---------------------------------------------------------- SensorMessage
Update(id, value) == [type |-> "Update", id |-> id, value |-> value]
Config(id)        == [type |-> "Config", id |-> id, value |-> Fin(0)]
Error(id)         == [type |-> "Error", id |-> id, value |-> Fin(0)]
ClearError(id)    == [type |-> "ClearError", id |-> id, value |-> Fin(0)]
Remove(id)        == [type |-> "Remove", id |-> id, value |-> Fin(0)]

\* ------------------------------------------------------------------ call
\* The operation a step ran and its arguments; pubs counts its publishes,
\* ok is the outcome of its write to the store, and msg is the message it
\* published or, for next, received.
NoCall ==
    [op |-> "init", id |-> Tmp0, val |-> Fin(0), str |-> "", alias |-> "",
     unit |-> "", rate |-> None, source |-> None, n |-> 0, pubs |-> 0,
     ok |-> TRUE, msg |-> [type |-> "", id |-> Tmp0, value |-> Fin(0)]]

\* ------------------------------------------------------------- the bus
\* A channel: its queue, whether its Receiver is alive, and as history the
\* publish count when it was created (since), the number of the last
\* message received (last) and whether a send ever found it full (missed).
\* A queued message carries its publish number seq as history.
NewChan(n) == [queue |-> <<>>, rx |-> TRUE, since |-> n, last |-> n, missed |-> FALSE]

\* crossbeam's try_send on a bounded channel: a dropped Receiver is seen
\* before a full queue.
try_send(c) ==
    IF ~chans[c].rx THEN "Disconnected"
    ELSE IF Len(chans[c].queue) >= QueueCap THEN "Full"
    ELSE "Ok"

\* A retain that keeps every sender.
retained_always(c) == TRUE

\* The closure of retain: false, and the sender leaves the list, only on
\* TrySendError::Disconnected.
retained(c) == try_send(c) # "Disconnected"

\* A queue that hands out the newest message first.
enqueue_front(queue, m) == <<m>> \o queue

enqueue(queue, m) == Append(queue, m)

\* A loop over the followers that stops at the first full queue.
delivered_until_full(c) ==
    /\ try_send(c) = "Ok"
    /\ \A i \in 1..Len(followers) :
          (\E j \in i..Len(followers) : followers[j] = c) => try_send(followers[i]) # "Full"

delivered(c) == try_send(c) = "Ok"

sent(c, message) ==
    IF delivered(c)
    THEN [chans[c] EXCEPT !.queue =
            enqueue(@, [msg |-> message, seq |-> npub + 1])]
    ELSE IF try_send(c) = "Full"
    THEN [chans[c] EXCEPT !.missed = TRUE]
    ELSE chans[c]

\* A send that waits while the queue is full.
attempted_when_room(c) == try_send(c) # "Full"

\* try_send comes back at once with one of its three results.
attempted(c) == try_send(c) \in {"Ok", "Full", "Disconnected"}

broadcast(message) ==
    /\ \A i \in 1..Len(followers) : attempted(followers[i])
    /\ followers' = SelectSeq(followers, retained)
    /\ chans' = [c \in DOMAIN chans |->
                    IF c \in Range(followers) THEN sent(c, message) ELSE chans[c]]
    /\ npub' = npub + 1

NoBroadcast == UNCHANGED <<followers, chans, npub>>

subscribe(max) ==
    /\ Len(chans) < max
    /\ chans' = Append(chans, NewChan(npub))
    /\ followers' = Append(followers, Len(chans) + 1)
    /\ call' = [NoCall EXCEPT !.op = "subscribe", !.n = Len(chans) + 1]
    /\ UNCHANGED <<retention, sensor_storage, database, workers, adding,
                   npub, samples, allocated>>

\* SensorIterator::next: rx.recv() takes the message at the front.
next(c) ==
    /\ c \in DOMAIN chans
    /\ chans[c].rx
    /\ chans[c].queue # <<>>
    /\ chans' = [chans EXCEPT ![c].queue = Tail(@),
                              ![c].last = Head(chans[c].queue).seq]
    /\ call' = [NoCall EXCEPT !.op = "next", !.n = c,
                              !.msg = Head(chans[c].queue).msg]
    /\ UNCHANGED <<retention, sensor_storage, database, followers, workers,
                   adding, npub, samples, allocated>>

\* The SensorIterator, and with it the Receiver, is dropped. The messages
\* still queued stay where they are and can no longer be received.
drop_iterator(c) ==
    /\ c \in DOMAIN chans
    /\ chans[c].rx
    /\ chans' = [chans EXCEPT ![c].rx = FALSE]
    /\ call' = [NoCall EXCEPT !.op = "drop", !.n = c]
    /\ UNCHANGED <<retention, sensor_storage, database, followers, workers,
                   adding, npub, samples, allocated>>

\* ------------------------------------------------------------- registry
\* set without its is_nan test.
rejected_negative_only(value) == lt_zero(value)

rejected(value) == lt_zero(value) \/ is_nan(value)

\* pop_back when the history holds retention samples or more, push_front.
ring_insert(values, value) ==
    <<value>> \o (IF Len(values) >= retention
                  THEN SubSeq(values, 1, Len(values) - 1)
                  ELSE values)

set(key, value) ==
    /\ IF ~rejected(value) /\ key \in DOMAIN sensor_storage
       THEN /\ sensor_storage' = [sensor_storage EXCEPT ![key].values =
                                    ring_insert(@, value)]
            /\ broadcast(Update(key, value))
            /\ samples' = [samples EXCEPT ![key] = <<value>> \o @]
            /\ call' = [NoCall EXCEPT !.op = "set", !.id = key, !.val = value,
                                      !.pubs = 1, !.msg = Update(key, value)]
       ELSE /\ NoBroadcast
            /\ UNCHANGED <<sensor_storage, samples>>
            /\ call' = [NoCall EXCEPT !.op = "set", !.id = key, !.val = value]
    /\ UNCHANGED <<retention, database, workers, adding, allocated>>

get_value(key) ==
    IF key \in DOMAIN sensor_storage /\ sensor_storage[key].values # <<>>
    THEN Some(Head(sensor_storage[key].values))
    ELSE None

\* set_error without its comparison.
error_changes_always(key, error) == TRUE

error_changes(key, error) == sensor_storage[key].error # Some(error)

set_error(key, error) ==
    /\ IF key \in DOMAIN sensor_storage /\ error_changes(key, error)
       THEN /\ sensor_storage' = [sensor_storage EXCEPT ![key].error = Some(error)]
            /\ broadcast(Error(key))
            /\ call' = [NoCall EXCEPT !.op = "set_error", !.id = key,
                                      !.str = error, !.pubs = 1,
                                      !.msg = Error(key)]
       ELSE /\ NoBroadcast
            /\ UNCHANGED sensor_storage
            /\ call' = [NoCall EXCEPT !.op = "set_error", !.id = key,
                                      !.str = error]
    /\ UNCHANGED <<retention, database, workers, adding, samples, allocated>>

\* A clear_error that publishes only when an error was set.
clear_error_if_set(key) ==
    /\ IF key \in DOMAIN sensor_storage /\ sensor_storage[key].error # None
       THEN /\ sensor_storage' = [sensor_storage EXCEPT ![key].error = None]
            /\ broadcast(ClearError(key))
            /\ call' = [NoCall EXCEPT !.op = "clear_error", !.id = key,
                                      !.pubs = 1, !.msg = ClearError(key)]
       ELSE /\ NoBroadcast
            /\ UNCHANGED sensor_storage
            /\ call' = [NoCall EXCEPT !.op = "clear_error", !.id = key]
    /\ UNCHANGED <<retention, database, workers, adding, samples, allocated>>

clear_error(key) ==
    /\ IF key \in DOMAIN sensor_storage
       THEN /\ sensor_storage' = [sensor_storage EXCEPT ![key].error = None]
            /\ broadcast(ClearError(key))
            /\ call' = [NoCall EXCEPT !.op = "clear_error", !.id = key,
                                      !.pubs = 1, !.msg = ClearError(key)]
       ELSE /\ NoBroadcast
            /\ UNCHANGED sensor_storage
            /\ call' = [NoCall EXCEPT !.op = "clear_error", !.id = key]
    /\ UNCHANGED <<retention, database, workers, adding, samples, allocated>>

\* A save_sensor that returns without writing.
save_sensor_lost(db, key, sensor, ok) == db

\* save_sensor: the record goes to the tree of the key's kind under the
\* key's number; when the store fails (ok = FALSE) nothing is written.
save_sensor(db, key, sensor, ok) ==
    IF ~ok THEN db
    ELSE IF is_virtual(key)
    THEN [db EXCEPT !.virtual = (to_usize(key) :> serialize(sensor)) @@ @]
    ELSE [db EXCEPT !.builtin = (to_usize(key) :> serialize(sensor)) @@ @]

\* reconfigure without its is_virtual test.
honours_rate_always(key) == TRUE

\* The fields reconfigure writes: rate and source only for a Virtual key.
honours_rate(key) == is_virtual(key)

\* A reconfigure that keeps the rate and the source a frame leaves out.
reconfigured_keeping(key, s, alias, unit, rate, source) ==
    IF honours_rate(key)
    THEN [s EXCEPT !.alias = alias, !.unit = unit,
                   !.rate = IF rate = None THEN @ ELSE rate[1],
                   !.source = IF source = None THEN @ ELSE source]
    ELSE [s EXCEPT !.alias = alias, !.unit = unit]

reconfigured(key, s, alias, unit, rate, source) ==
    IF honours_rate(key)
    THEN [s EXCEPT !.alias = alias, !.unit = unit,
                   !.rate = IF rate = None THEN DefaultVirtRate ELSE rate[1],
                   !.source = source]
    ELSE [s EXCEPT !.alias = alias, !.unit = unit]

reconfigure(key, alias, unit, rate, source, ok) ==
    /\ IF key \in DOMAIN sensor_storage
       THEN LET s == reconfigured(key, sensor_storage[key], alias, unit, rate, source)
            IN /\ sensor_storage' = [sensor_storage EXCEPT ![key] = s]
               /\ database' = save_sensor(database, key, s, ok)
               /\ broadcast(Config(key))
               /\ call' = [NoCall EXCEPT !.op = "reconfigure", !.id = key,
                              !.alias = alias, !.unit = unit, !.rate = rate,
                              !.source = source, !.pubs = 1, !.ok = ok,
                              !.msg = Config(key)]
       ELSE /\ NoBroadcast
            /\ UNCHANGED <<sensor_storage, database>>
            /\ call' = [NoCall EXCEPT !.op = "reconfigure", !.id = key,
                           !.alias = alias, !.unit = unit, !.rate = rate,
                           !.source = source]
    /\ UNCHANGED <<retention, workers, adding, samples, allocated>>


\* ---------------------------------------------------------- add_virtual
\* add_virtual is not atomic: between its calls other threads run. A thread
\* is idle or stands before one of its steps, holding the id it computed
\* and whether its save_sensor returned Ok.
Threads == 1..MaxThreads

Idle == [pc |-> "idle", id |-> Tmp0, saved |-> FALSE]

\* The locks of the registry: the RwLock of every shard of the DashMap
\* (its writer, 0 for none, and its readers), the Mutex of followers and
\* the Mutex of the Workers table (their holder, 0 for none).
Shards == 0..(NShards - 1)
NoLocks ==
    [shards |-> [s \in Shards |-> [writer |-> 0, readers |-> {}]],
     followers |-> 0, workers |-> 0]

\* A thread outside every call into the registry.
Resting == [op |-> "none", pc |-> "idle", key |-> Tmp0, val |-> Fin(0), str |-> "",
            cfg |-> [rate |-> None, source |-> None], at |-> 0, max |-> None,
            msg |-> Config(Tmp0)]

Max(S) == CHOOSE x \in S : \A y \in S : y <= x

next_virt_id ==
    LET keys == {to_usize(k) : k \in DOMAIN sensor_storage}
    IN Virtual((IF keys = {} THEN LastBuiltin ELSE Max(keys)) + 1)

\* format!("{:?}", id) of a SensorId: the variant, and for Virtual its number.
debug_fmt(id) ==
    IF is_virtual(id) THEN "Virtual(" \o ToString(id.nr) \o ")" ELSE id.tag

NewVirtual(id) ==
    [alias |-> debug_fmt(id), values |-> <<>>, unit |-> "?",
     rate |-> DefaultVirtRate, source |-> Some("sensor(0)"), error |-> None]

add_virtual_id(t) ==
    /\ adding[t].pc = "idle"
    /\ Len(allocated) < MaxAdds
    /\ adding' = [adding EXCEPT ![t] = [pc |-> "save", id |-> next_virt_id,
                                        saved |-> FALSE]]
    /\ allocated' = Append(allocated,
            [id |-> next_virt_id,
             present |-> {to_usize(k) : k \in DOMAIN sensor_storage}])
    /\ call' = [NoCall EXCEPT !.op = "next_virt_id", !.id = next_virt_id, !.n = t]
    /\ NoBroadcast
    /\ UNCHANGED <<retention, sensor_storage, database, workers, samples>>

add_virtual_save(t, ok) ==
    /\ adding[t].pc = "save"
    /\ database' = save_sensor(database, adding[t].id, NewVirtual(adding[t].id), ok)
    /\ adding' = [adding EXCEPT ![t].pc = "insert", ![t].saved = ok]
    /\ call' = [NoCall EXCEPT !.op = "save_sensor", !.id = adding[t].id, !.n = t,
                              !.ok = ok]
    /\ NoBroadcast
    /\ UNCHANGED <<retention, sensor_storage, workers, samples, allocated>>

\* DashMap::insert: a sensor already under the key is replaced.
add_virtual_insert(t) ==
    /\ adding[t].pc = "insert"
    /\ sensor_storage' = (adding[t].id :> NewVirtual(adding[t].id)) @@ sensor_storage
    /\ samples' = (adding[t].id :> <<>>) @@ samples
    /\ adding' = [adding EXCEPT ![t].pc = "broadcast"]
    /\ call' = [NoCall EXCEPT !.op = "insert", !.id = adding[t].id, !.n = t]
    /\ NoBroadcast
    /\ UNCHANGED <<retention, database, workers, allocated>>

add_virtual_broadcast(t) ==
    /\ adding[t].pc = "broadcast"
    /\ broadcast(Config(adding[t].id))
    /\ adding' = [adding EXCEPT ![t].pc = "spawn"]
    /\ call' = [NoCall EXCEPT !.op = "add_broadcast", !.id = adding[t].id,
                              !.n = t, !.pubs = 1,
                              !.msg = Config(adding[t].id)]
    /\ UNCHANGED <<retention, sensor_storage, database, workers, samples, allocated>>

\* The worker's thread is spawned and (vec![id], handle) pushed on Workers.
start_virtual_worker(t) ==
    /\ adding[t].pc = "spawn"
    /\ workers' = Append(workers, adding[t].id)
    /\ adding' = [adding EXCEPT ![t] = Idle]
    /\ call' = [NoCall EXCEPT !.op = "start_virtual_worker", !.id = adding[t].id,
                              !.n = t]
    /\ NoBroadcast
    /\ UNCHANGED <<retention, sensor_storage, database, samples, allocated>>

\* ------------------------------------------------ the virtual worker
\* What rhai makes of a source: a script that returns sensor(n), a float
\* constant, an integer (no f64, so eval_ast fails), N/A (compiles, and
\* fails for want of the variables N and A), or text that does not parse.
compile(source) ==
    IF source = None THEN [ok |-> TRUE, kind |-> "unbound", n |-> 0]
    ELSE CASE source[1] = "sensor(0)" -> [ok |-> TRUE, kind |-> "read", n |-> 0]
           [] source[1] = "sensor(9)" -> [ok |-> TRUE, kind |-> "read", n |-> 9]
           [] source[1] = "1.0"       -> [ok |-> TRUE, kind |-> "const", n |-> 1]
           [] source[1] = "1"         -> [ok |-> TRUE, kind |-> "int", n |-> 1]
           [] OTHER                   -> [ok |-> FALSE, kind |-> "parse", n |-> 0]

\* The function "sensor" registered with the engine: the newest value of
\* from_usize(index), which joins the dependencies, or an error.
sensor_fn(index) ==
    LET id == from_usize(index)
    IN IF get_value(id) = None
       THEN [ok |-> FALSE, deps |-> {}, value |-> Fin(0), err |-> "Could not find"]
       ELSE [ok |-> TRUE, deps |-> {id}, value |-> get_value(id)[1], err |-> ""]

\* eng.eval_ast(ast): the result, and the dependencies the run found.
eval_ast(ast) ==
    CASE ast.kind = "read"  -> sensor_fn(ast.n)
      [] ast.kind = "const" -> [ok |-> TRUE, deps |-> {}, value |-> Fin(ast.n), err |-> ""]
      [] ast.kind = "int"   -> [ok |-> FALSE, deps |-> {}, value |-> Fin(0),
                                err |-> "ErrorMismatchOutputType"]
      [] OTHER              -> [ok |-> FALSE, deps |-> {}, value |-> Fin(0),
                                err |-> "ErrorVariableNotFound"]

\* The thread start_virtual_worker spawned as the i-th worker, up to its
\* loop: rate and source of its sensor, the script, last = Instant::now().
worker_init(i) ==
    /\ i \in 1..Len(workers)
    /\ i \notin DOMAIN virt
    /\ LET id == workers[i]
           present == id \in DOMAIN sensor_storage
       IN virt' = (i :> [pc |-> "subscribe", id |-> id, deps |-> {},
                         rate |-> IF present THEN sensor_storage[id].rate
                                  ELSE DefaultVirtRate,
                         compiled |-> compile(IF present THEN sensor_storage[id].source
                                              ELSE None),
                         last |-> now, chan |-> 0, val |-> Fin(0), err |-> "",
                         out |-> "", evaluated |-> None, succeeded |-> None,
                         owed |-> FALSE]) @@ virt
    /\ call' = [NoCall EXCEPT !.op = "worker_init", !.n = i, !.id = workers[i]]
    /\ NoBroadcast
    /\ UNCHANGED <<retention, sensor_storage, database, workers, adding, now,
                   samples, allocated>>
    /\ UNCHANGED <<session, sync>>

\* for upd in sensors.subscribe(): the worker's own channel.
worker_subscribe(i) ==
    /\ i \in DOMAIN virt
    /\ virt[i].pc = "subscribe"
    /\ chans' = Append(chans, NewChan(npub))
    /\ followers' = Append(followers, Len(chans) + 1)
    /\ virt' = [virt EXCEPT ![i].pc = "loop", ![i].chan = Len(chans) + 1]
    /\ call' = [NoCall EXCEPT !.op = "worker_subscribe", !.n = i, !.id = virt[i].id]
    /\ UNCHANGED <<retention, sensor_storage, database, workers, adding, now,
                   npub, samples, allocated>>
    /\ UNCHANGED <<session, sync>>

\* A trigger that does not look at the dependencies.
depends_always(w, s) == TRUE

\* dependecies.contains(&s) || dependecies.is_empty()
depends(w, s) == s \in w.deps \/ w.deps = {}

\* A trigger that fires when exactly rate ms have gone by.
rate_elapsed_at(w) == now - w.last >= w.rate

\* last.elapsed().as_millis() > rate
rate_elapsed(w) == now - w.last > w.rate

\* An Update arm that takes every compiled for an Ok.
compile_failed_never(w) == FALSE

\* compiled is an Err
compile_failed(w) == ~w.compiled.ok

\* What the arm of the match does to the worker's locals: pc names the call
\* into the registry that follows; as history, out names the arm, evaluated
\* and succeeded the time of the last eval_ast and of the last one that
\* returned Ok.
worker_match(w, m) ==
    CASE m.type = "Remove" /\ m.id = w.id ->
            [w EXCEPT !.pc = "exited", !.out = "exit"]
      [] m.type = "Config" /\ m.id = w.id ->
            IF w.id \in DOMAIN sensor_storage
            THEN [w EXCEPT !.pc = "clear_error", !.out = "config",
                           !.rate = sensor_storage[w.id].rate,
                           !.compiled = compile(sensor_storage[w.id].source),
                           !.deps = {}]
            ELSE [w EXCEPT !.pc = "clear_error", !.out = "config"]
      [] m.type = "Update" /\ depends(w, m.id) /\ rate_elapsed(w) ->
            IF compile_failed(w)
            THEN [w EXCEPT !.pc = "set_error", !.out = "compile_err", !.deps = {},
                           !.err = "ParseError"]
            ELSE LET r == eval_ast(w.compiled)
                 IN IF r.ok
                    THEN [w EXCEPT !.pc = "set", !.out = "eval_ok", !.deps = r.deps,
                                   !.val = r.value, !.evaluated = Some(now),
                                   !.succeeded = Some(now)]
                    ELSE [w EXCEPT !.pc = "set_error", !.out = "eval_err",
                                   !.deps = r.deps, !.err = r.err,
                                   !.evaluated = Some(now)]
      [] OTHER -> [w EXCEPT !.out = "ignored"]

\* One turn of the loop up to the arm's call into the registry: the message
\* at the front of the worker's channel is received and matched. When the
\* loop is left the iterator, and with it the Receiver, is dropped.
worker_recv(i) ==
    /\ i \in DOMAIN virt
    /\ virt[i].pc = "loop"
    /\ chans[virt[i].chan].queue # <<>>
    /\ LET c == virt[i].chan
           m == Head(chans[c].queue).msg
           w == worker_match(virt[i], m)
       IN /\ virt' = [virt EXCEPT ![i] = w]
          /\ chans' = [chans EXCEPT ![c].queue = Tail(@),
                                    ![c].last = Head(chans[c].queue).seq,
                                    ![c].rx = w.pc # "exited"]
          /\ call' = [NoCall EXCEPT !.op = "worker_recv", !.n = i, !.id = virt[i].id,
                                    !.msg = m,
                                    !.str = w.out]
    /\ UNCHANGED <<retention, sensor_storage, database, followers, workers, adding,
                   now, npub, samples, allocated>>
    /\ UNCHANGED <<session, sync>>

\* The call into the registry the arm ends with; after set, last = now.
worker_act(i) ==
    /\ i \in DOMAIN virt
    /\ \/ /\ virt[i].pc = "set"
          /\ set(virt[i].id, virt[i].val)
          /\ virt' = [virt EXCEPT ![i].pc = "loop", ![i].last = now]
       \/ /\ virt[i].pc = "set_error"
          /\ set_error(virt[i].id, virt[i].err)
          /\ virt' = [virt EXCEPT ![i].pc = "loop"]
       \/ /\ virt[i].pc = "clear_error"
          /\ clear_error(virt[i].id)
          /\ virt' = [virt EXCEPT ![i].pc = "loop"]
    /\ UNCHANGED <<now, net, actuator, sync>>

\* Time goes by, up to the instant t.
Tick(t) ==
    /\ t > now
    /\ now' = t
    /\ call' = [NoCall EXCEPT !.op = "tick", !.n = t]
    /\ NoBroadcast
    /\ UNCHANGED <<retention, sensor_storage, database, workers, adding, virt,
                   samples, allocated>>
    /\ UNCHANGED <<session, sync>>

\* Registry.remove, as the specification gives it: the sensor leaves the
\* registry and the store and Remove(id) is published. As history, a worker
\* of id that is in its loop is owed the message.
remove(id) ==
    /\ is_virtual(id)
    /\ sensor_storage' = [k \in DOMAIN sensor_storage \ {id} |-> sensor_storage[k]]
    /\ database' = [database EXCEPT !.virtual =
                       [k \in DOMAIN database.virtual \ {to_usize(id)} |->
                           database.virtual[k]]]
    /\ broadcast(Remove(id))
    /\ virt' = [i \in DOMAIN virt |->
                   IF virt[i].id = id /\ virt[i].pc \notin {"subscribe", "exited"}
                   THEN [virt[i] EXCEPT !.owed = TRUE] ELSE virt[i]]
    /\ call' = [NoCall EXCEPT !.op = "remove", !.id = id, !.pubs = 1,
                              !.msg = Remove(id)]
    /\ UNCHANGED <<retention, workers, adding, now, samples, allocated>>
    /\ UNCHANGED <<session, sync>>

\* ------------------------------------------------------- handle_package
\* A SensorConfig frame: the key is from_usize of the frame's id.
handle_sensor_config(id, alias, unit, rate, source, ok) ==
    reconfigure(from_usize(id), alias, unit, rate, source, ok)

\* ------------------------------------------------------------ net::handle
\* MessageId and TryFrom<u16>.
MessageIds == <<"Hello", "Ready", "Value", "Sensors", "SensorConfig", "AddSensor", "Pwm">>

try_from(value) ==
    IF value \in 0..LastMessageId
    THEN [ok |-> TRUE, id |-> MessageIds[value + 1]]
    ELSE [ok |-> FALSE, id |-> ""]

\* An inbound frame as the client writes it: the u16 id, the u64 data_len,
\* what the payload holds, and where the client stops writing and closes
\* the stream, if it does ("id", "len", "payload", or "none").
Frame(id, len, body, cut) == [id |-> id, len |-> len, body |-> body, cut |-> cut]

Empty == [kind |-> "empty"]
Junk == [kind |-> "junk"]
SensorConfigBody(id, alias, unit, rate, source) ==
    [kind |-> "SensorConfig", id |-> id, alias |-> alias, unit |-> unit,
     rate |-> rate, source |-> source]
SetPwmBody(channel, value) == [kind |-> "SetPwm", channel |-> channel, value |-> value]

\* The bytes of the stream, as runs of n equal bytes b; the end of the
\* stream (or the error every later read meets) is the run Eof.
Run(b, n) == [b |-> b, n |-> n]
Eof == Run(0 - 1, 1)

\* prost's codec is no part of the source. In its place the payload of a
\* message is a run of one byte, and Codec says which byte stands for which
\* message; the bytes 255 are no message of any type.
Codec ==
    (10 :> SensorConfigBody(7, "a", "u", Some(50), Some("1.0"))) @@
    (13 :> SetPwmBody(0, Fin(1))) @@
    (14 :> SetPwmBody(2, Fin(1))) @@
    (15 :> SetPwmBody(1, Fin(2)))

fill(body) ==
    IF \E b \in DOMAIN Codec : Codec[b] = body
    THEN CHOOSE b \in DOMAIN Codec : Codec[b] = body
    ELSE 255

\* F of the value of v.
Bind(v, F(_)) == CHOOSE r \in {F(x) : x \in {v}} : TRUE

\* Adjacent runs of the same byte are one run.
RECURSIVE Merge(_)
Merge(s) ==
    IF Len(s) < 2 THEN s
    ELSE Bind(Merge(Tail(s)), LAMBDA t :
            IF Head(s).b = Head(t).b /\ Head(s).b >= 0
            THEN <<Run(Head(s).b, Head(s).n + Head(t).n)>> \o Tail(t)
            ELSE <<Head(s)>> \o t)

Norm(s) == Bind(s, Merge)

\* The first k bytes of the stream s: all there (st "ok", with the bytes
\* and what follows them), not all there yet ("pending"), or cut off by the
\* end of the stream ("eof").
RECURSIVE Take(_, _)
Take(s, k) ==
    IF k = 0 THEN [st |-> "ok", got |-> <<>>, rest |-> s]
    ELSE IF s = <<>> THEN [st |-> "pending", got |-> <<>>, rest |-> s]
    ELSE IF Head(s) = Eof THEN [st |-> "eof", got |-> <<>>, rest |-> s]
    ELSE IF Head(s).n <= k
    THEN LET t == Take(Tail(s), k - Head(s).n)
         IN [t EXCEPT !.got = <<Head(s)>> \o @]
    ELSE [st |-> "ok", got |-> <<Run(Head(s).b, k)>>,
          rest |-> <<Run(Head(s).b, Head(s).n - k)>> \o Tail(s)]

\* The single bytes of a few runs.
RECURSIVE Bytes(_)
Bytes(s) ==
    IF s = <<>> THEN <<>>
    ELSE [i \in 1..Head(s).n |-> Head(s).b] \o Bytes(Tail(s))

\* write_u16_le, write_u64_le of numbers below 2^31.
le_u16(v) == <<Run(v % 256, 1), Run((v \div 256) % 256, 1)>>
le_u64(v) ==
    <<Run(v % 256, 1), Run((v \div 256) % 256, 1), Run((v \div 65536) % 256, 1),
      Run(v \div 16777216, 1), Run(0, 4)>>

\* read_u16_le; read_u64_le, of which a model of 31-bit numbers keeps the
\* three low bytes and whether a higher byte is set.
u16_le(b) == b[1] + 256 * b[2]
u64_le(b) == [low |-> b[1] + 256 * b[2] + 65536 * b[3],
              high |-> \E i \in 4..8 : b[i] # 0]

\* What the client writes for the frame f: all of it, or its first bytes.
ToBytes(f) ==
    LET kept == CASE f.cut = "id" -> 1
                  [] f.cut = "len" -> 5
                  [] f.cut = "payload" -> 10 + (f.len \div 2)
                  [] OTHER -> 10 + f.len
    IN Bind(le_u16(f.id) \o le_u64(f.len) \o
            (IF f.len = 0 THEN <<>> ELSE <<Run(fill(f.body), f.len)>>),
            LAMBDA all : Norm(Take(all, kept).got))

\* A receive_package that accepts a payload of any length.
too_long_never(data_len) == FALSE

too_long(data_len) == data_len.high \/ data_len.low > MaxPayload

\* receive_package on the stream s: read_u16_le and try_from, read_u64_le,
\* the test of data_len, read_exact. Every ? and the bail! end it with an
\* Err (st "err", and why), and the bytes it has read are gone; st is
\* "pending" while the bytes it waits for are not there.
receive_package(s) ==
    LET none == [st |-> "pending", why |-> "", id |-> "", data |-> <<>>, rest |-> s]
        payload(b, data_len) ==
            Bind(Take(b.rest, data_len.low), LAMBDA c :
                IF c.st = "pending" THEN none
                ELSE IF c.st = "eof"
                THEN [none EXCEPT !.st = "err", !.why = "io", !.rest = c.rest]
                ELSE [none EXCEPT !.st = "ok", !.data = Norm(c.got), !.rest = c.rest])
        length(a, id) ==
            Bind(Take(a.rest, 8), LAMBDA b :
                IF b.st = "pending" THEN none
                ELSE IF b.st = "eof"
                THEN [none EXCEPT !.st = "err", !.why = "io", !.rest = b.rest]
                ELSE Bind(u64_le(Bytes(b.got)), LAMBDA data_len :
                    IF too_long(data_len)
                    THEN [none EXCEPT !.st = "err", !.why = "len", !.rest = b.rest]
                    ELSE [payload(b, data_len) EXCEPT !.id = id]))
    IN  Bind(Take(s, 2), LAMBDA a :
            IF a.st = "pending" THEN none
            ELSE IF a.st = "eof"
            THEN [none EXCEPT !.st = "err", !.why = "io", !.rest = a.rest]
            ELSE Bind(try_from(u16_le(Bytes(a.got))), LAMBDA id :
                IF ~id.ok THEN [none EXCEPT !.st = "err", !.why = "id", !.rest = a.rest]
                ELSE length(a, id.id)))

\* decode of the stand-in codec: no bytes decode to the message of default
\* fields, the run of a message of the type to that message, all else to
\* an Err.
decode_SensorConfig(data) ==
    LET default == SensorConfigBody(0, "", "", None, None)
    IN  IF data = <<>> THEN [ok |-> TRUE, msg |-> default]
        ELSE IF /\ Len(data) = 1
                /\ data[1].b \in DOMAIN Codec
                /\ Codec[data[1].b].kind = "SensorConfig"
        THEN [ok |-> TRUE, msg |-> Codec[data[1].b]]
        ELSE [ok |-> FALSE, msg |-> default]

decode_SetPwm(data) ==
    LET default == SetPwmBody(0, Fin(0))
    IN  IF data = <<>> THEN [ok |-> TRUE, msg |-> default]
        ELSE IF /\ Len(data) = 1
                /\ data[1].b \in DOMAIN Codec
                /\ Codec[data[1].b].kind = "SetPwm"
        THEN [ok |-> TRUE, msg |-> Codec[data[1].b]]
        ELSE [ok |-> FALSE, msg |-> default]

\* "as u32" of a usize keeps the low 32 bits. The numbers of this model
\* are below 2^31, the largest TLC computes with, so it keeps them all.
as_u32(x) == x

\* The frames send_package writes.
HelloFrame == [id |-> "Hello", retention |-> as_u32(retention)]
ValueFrame(id, value) == [id |-> "Value", sensor |-> as_u32(to_usize(id)), value |-> value]
SensorsFrame ==
    [id |-> "Sensors",
     sensors |-> {[id |-> as_u32(to_usize(k)),
                   rate |-> as_u32(sensor_storage[k].rate),
                   alias |-> sensor_storage[k].alias,
                   unit |-> sensor_storage[k].unit,
                   values |-> sensor_storage[k].values,
                   source |-> sensor_storage[k].source,
                   error |-> sensor_storage[k].error] : k \in DOMAIN sensor_storage}]

\* The session: where handle stands, the frames it wrote, the bytes the
\* client wrote that it has not read (inbuf), its
\* tokio::sync::broadcast Receiver (open once subscribed; lagged when the
\* sender overwrote messages it had not read), whether the updates branch
\* of the select! it waits in is enabled, what it logged, and as history
\* the frames the client wrote of which it has not read the last byte
\* (unread), whether the frame that ended the handshake had the id 1
\* (got_ready), the frames the client wrote (nin), the events sent to it
\* (nev), the calls of receive_package that returned while it was
\* streaming (nrd) and its last step (did; frame is the frame a read
\* began at the first byte of, when aligned, and why the reason of an Err).
NoFrame == Frame(0, 0, Empty, "none")
NoEvent == [type |-> "", id |-> Tmp0, value |-> Fin(0)]
NoStep == [op |-> "", frame |-> NoFrame, aligned |-> FALSE, why |-> "",
           event |-> NoEvent, wrote |-> FALSE]

NewSession ==
    [pc |-> "accepted", out |-> <<>>, inbuf |-> <<>>,
     rx |-> [open |-> FALSE, queue |-> <<>>, lagged |-> FALSE],
     armed |-> TRUE, log |-> <<>>, unread |-> <<>>, got_ready |-> FALSE,
     nin |-> 0, nev |-> 0, nrd |-> 0, did |-> NoStep]

\* The bytes of the frames fs, one after the other.
RECURSIVE Concat(_)
Concat(fs) == IF fs = <<>> THEN <<>> ELSE ToBytes(Head(fs)) \o Concat(Tail(fs))

Flat(fs) == Norm(Concat(fs))

\* The stream s before its end.
Unclosed(s) ==
    IF s # <<>> /\ s[Len(s)] = Eof THEN SubSeq(s, 1, Len(s) - 1) ELSE s

\* The next byte the session reads is the first byte of a frame.
Aligned(n) == n.unread # <<>> /\ Unclosed(n.inbuf) = Flat(n.unread)

\* The client has closed the stream.
Ended(n) == n.inbuf # <<>> /\ n.inbuf[Len(n.inbuf)] = Eof

\* receive_package has returned r: the bytes it read are gone from the
\* stream.
Read(n, op, r) ==
    Bind(Aligned(n), LAMBDA aligned :
        [n EXCEPT !.inbuf = r.rest,
                  !.unread = IF aligned /\ Unclosed(r.rest) = Flat(Tail(n.unread))
                             THEN Tail(@) ELSE @,
                  !.did = [op |-> op,
                           frame |-> IF aligned THEN Head(n.unread) ELSE NoFrame,
                           aligned |-> aligned, why |-> r.why,
                           event |-> NoEvent, wrote |-> FALSE]])

NoActuator == [queue |-> <<>>, rx |-> TRUE]

\* handle returns: its locals, the Receiver among them, are dropped.
Closed(n) == [n EXCEPT !.pc = "closed", !.inbuf = <<>>, !.unread = <<>>,
                       !.rx = [open |-> FALSE, queue |-> <<>>, lagged |-> FALSE]]

\* send_package on the session n: the frame is written, or the write fails
\* and the ? returns from handle.
Sent(n, frame, ok, pc) ==
    IF ok THEN [n EXCEPT !.out = Append(@, frame), !.pc = pc]
    ELSE Closed(n)

\* A step of the session that calls nothing of the registry.
SessionStep(n, a) ==
    /\ net' = n
    /\ actuator' = a
    /\ call' = [NoCall EXCEPT !.op = "session"]
    /\ NoBroadcast
    /\ UNCHANGED <<retention, sensor_storage, database, workers, adding, virt, now,
                   samples, allocated, sync>>

Did(n, op, f, e, wrote) ==
    [n EXCEPT !.did = [op |-> op, frame |-> f, aligned |-> FALSE, why |-> "",
                       event |-> e, wrote |-> wrote]]

send_hello(ok) ==
    /\ net.pc = "accepted"
    /\ SessionStep(Did(Sent(net, HelloFrame, ok, "hello_sent"),
                       "send_hello", NoFrame, NoEvent, ok), actuator)

\* A handshake that takes any frame it could read for the Ready.
is_ready_any(rdy) == TRUE

is_ready(rdy) == rdy = "Ready"

\* The first frame: anything but a Ready that receive_package could read
\* returns from handle.
await_ready ==
    /\ net.pc = "hello_sent"
    /\ LET r == receive_package(net.inbuf)
           n == Read(net, "await_ready", r)
       IN /\ r.st # "pending"
          /\ SessionStep(IF r.st = "ok" /\ is_ready(r.id)
                         THEN [n EXCEPT !.pc = "ready",
                                        !.got_ready = n.did.aligned /\ n.did.frame.id = 1]
                         ELSE Closed(n), actuator)

send_sensors(ok) ==
    /\ net.pc = "ready"
    /\ SessionStep(Did(Sent(net, SensorsFrame, ok, "subscribe"),
                       "send_sensors", NoFrame, NoEvent, ok), actuator)

net_subscribe ==
    /\ net.pc = "subscribe"
    /\ SessionStep(Did([net EXCEPT !.pc = "streaming", !.rx.open = TRUE],
                       "subscribe", NoFrame, NoEvent, FALSE), actuator)

\* A session that answers only Config with a snapshot.
snapshot_on_config(data) == data.type = "Config"

\* Config(_) | Error(_) | ClearError(_)
snapshot_on(data) == data.type \in {"Config", "Error", "ClearError"}

\* The branch Ok(data) = updates.recv() of the select!. After an overrun
\* recv returns Err(Lagged): the pattern does not match, and the branch is
\* disabled until the other branch has finished. When the branch is taken
\* the future of receive_package is dropped, and with it the bytes it has
\* read of a frame that is not all there yet (lost), if it was polled.
on_update(ok, lost) ==
    /\ net.pc = "streaming"
    /\ net.armed
    /\ IF net.rx.lagged
       THEN SessionStep(Did([net EXCEPT !.rx.lagged = FALSE, !.armed = FALSE],
                            "lagged", NoFrame, NoEvent, FALSE), actuator)
       ELSE /\ net.rx.queue # <<>>
            /\ LET data == Head(net.rx.queue)
                   n == [net EXCEPT !.rx.queue = Tail(@),
                                    !.inbuf = IF lost /\ receive_package(@).st = "pending"
                                              THEN <<>> ELSE @]
                   sends == data.type = "Update" \/ snapshot_on(data)
                   after ==
                     CASE data.type = "Update" ->
                            Sent(n, ValueFrame(data.id, data.value), ok, "streaming")
                       [] snapshot_on(data) ->
                            Sent(n, SensorsFrame, ok, "streaming")
                       [] OTHER -> n
               IN SessionStep(Did(after, "on_update", NoFrame, data, sends /\ ok),
                              actuator)

\* A handler that takes every channel number for a channel.
PwmChannel_any(channel) == Some(channel)

\* match p.channel: 0 and 1 are the channels, the rest returns Ok(()).
PwmChannel(channel) == IF channel \in {0, 1} THEN Some(channel) ELSE None

\* pwm.try_send on the actuator queue.
pwm_try_send(a) ==
    IF ~a.rx THEN "Disconnected"
    ELSE IF Len(a.queue) >= PwmCap THEN "Full"
    ELSE "Ok"

\* The branch rdy = receive_package(&mut rdr) of the select!, with
\* handle_package for a frame that could be read. An Err of receive_package
\* is logged; an Err of handle_package returns from handle.
on_frame(ok) ==
    /\ net.pc = "streaming"
    /\ net.nrd < MaxReads
    /\ \E r \in {receive_package(net.inbuf)} :
       \E n \in {[Read(net, "on_frame", r) EXCEPT !.nrd = @ + 1, !.armed = TRUE]} :
           \/ /\ r.st = "err"
              /\ SessionStep([n EXCEPT !.log = Append(@, "Recv error")], actuator)
           \/ /\ r.st = "ok" /\ r.id = "SensorConfig"
              /\ LET cfg == decode_SensorConfig(r.data)
                 IN IF cfg.ok
                    THEN /\ handle_sensor_config(cfg.msg.id, cfg.msg.alias, cfg.msg.unit,
                                                 cfg.msg.rate, cfg.msg.source, ok)
                         /\ net' = n
                         /\ UNCHANGED <<virt, now, actuator, sync>>
                    ELSE SessionStep(Closed(n), actuator)
           \/ /\ r.st = "ok" /\ r.id = "AddSensor"
              /\ add_virtual_id(1)
              /\ net' = [n EXCEPT !.pc = "add_virtual"]
              /\ UNCHANGED <<virt, now, actuator, sync>>
           \/ /\ r.st = "ok" /\ r.id = "Pwm"
              /\ LET p == decode_SetPwm(r.data)
                 IN IF ~p.ok THEN SessionStep(Closed(n), actuator)
                    ELSE IF PwmChannel(p.msg.channel) = None THEN SessionStep(n, actuator)
                    ELSE IF pwm_try_send(actuator) = "Ok"
                    THEN SessionStep(n, [actuator EXCEPT !.queue =
                            Append(@, [chan |-> PwmChannel(p.msg.channel)[1],
                                       value |-> p.msg.value])])
                    ELSE SessionStep([n EXCEPT !.log = Append(@, "Could not send to PWM")],
                                     actuator)
           \/ /\ r.st = "ok" /\ r.id \notin {"SensorConfig", "AddSensor", "Pwm"}
              /\ SessionStep(n, actuator)

\* sensors.add_virtual() of handle_package, on the session's thread: the
\* steps after next_virt_id; after the last, handle_package returns.
on_add_sensor(ok) ==
    /\ net.pc = "add_virtual"
    /\ \/ add_virtual_save(1, ok) /\ UNCHANGED net
       \/ add_virtual_insert(1) /\ UNCHANGED net
       \/ add_virtual_broadcast(1) /\ UNCHANGED net
       \/ start_virtual_worker(1) /\ net' = [net EXCEPT !.pc = "streaming"]
    /\ UNCHANGED <<virt, now, actuator, sync>>

\* The client, which has seen the Hello, writes the frame f, and closes the
\* stream after a frame it wrote part of; or it closes the stream.
client_send(f) ==
    /\ net.pc \in {"hello_sent", "streaming", "add_virtual"}
    /\ ~Ended(net)
    /\ net.nin + net.nev < MaxInputs
    /\ SessionStep([net EXCEPT !.inbuf = Norm(@ \o ToBytes(f)) \o
                                         (IF f.cut = "none" THEN <<>> ELSE <<Eof>>),
                               !.unread = Append(@, f), !.nin = @ + 1], actuator)

client_close ==
    /\ net.pc \in {"hello_sent", "streaming", "add_virtual"}
    /\ ~Ended(net)
    /\ SessionStep([net EXCEPT !.inbuf = @ \o <<Eof>>], actuator)

\* The sender of the session's tokio broadcast channel sends m; or it
\* overwrites the oldest message the session has not read.
bus_send(m) ==
    /\ net.rx.open
    /\ net.nin + net.nev < MaxInputs
    /\ SessionStep([net EXCEPT !.rx.queue = Append(@, m), !.nev = @ + 1], actuator)

bus_overrun ==
    /\ net.rx.open
    /\ net.rx.queue # <<>>
    /\ SessionStep([net EXCEPT !.rx.queue = Tail(@), !.rx.lagged = TRUE], actuator)

\* A poller sets a sample of Tmp0, and the Update goes to the session's
\* broadcast channel: to the Receiver, if handle has subscribed, and to
\* nobody otherwise, as a Receiver gets the messages sent after its
\* subscribe.
poll_set(value) ==
    /\ set(Tmp0, value)
    /\ net' = IF net.rx.open
              THEN [net EXCEPT !.rx.queue = Append(@, Update(Tmp0, value)),
                               !.nev = @ + 1]
              ELSE net
    /\ UNCHANGED <<virt, now, actuator, sync>>

\* The consumer of the actuator queue takes the oldest set-point; or its
\* Receiver is dropped, and every later try_send gives Disconnected.
actuator_recv ==
    /\ actuator.rx
    /\ actuator.queue # <<>>
    /\ SessionStep(net, [actuator EXCEPT !.queue = Tail(@)])

actuator_drop ==
    /\ actuator.rx
    /\ SessionStep(net, [queue |-> <<>>, rx |-> FALSE])

\* ------------------------------------------------- the registry's locks
\* The calls into the registry lock by lock. Every thread is in at most one
\* call; running[t].pc names the step of it the thread stands before, and a
\* step that takes a lock waits until the lock can be had.

\* The shard a key hashes to.
determine_shard(key) == to_usize(key) % NShards

Free(s) == locks.shards[s].writer = 0 /\ locks.shards[s].readers = {}

\* A step of thread t that leaves it at r with the locks l.
LockStep(t, r, l) ==
    /\ running' = [running EXCEPT ![t] = r]
    /\ locks' = l
    /\ call' = [NoCall EXCEPT !.op = "lock"]
    /\ UNCHANGED <<retention, adding, virt, now, net, actuator>>

\* A RefMut that is dropped as soon as the entry is written.
RefMut_dropped(t) == 0

\* The RefMut get_mut returned lives to the end of the if let block: the
\* thread holds the shard's write lock until then.
RefMut(t) == t

\* A Ref that is never dropped.
released_never(t) == {}

\* The Ref of get is dropped at the end of its statement or block.
released(t) == {t}

\* The thread enters the call c of the registry.
enter(t, c) ==
    /\ running[t].pc = "idle"
    /\ LockStep(t, c, locks)
    /\ NoBroadcast
    /\ UNCHANGED <<sensor_storage, database, workers, samples, allocated>>

\* What the call writes to its entry, and the message it publishes then.
written(r) ==
    LET s == sensor_storage[r.key]
    IN CASE r.op = "set" -> [s EXCEPT !.values = ring_insert(@, r.val)]
         [] r.op = "set_error" -> [s EXCEPT !.error = Some(r.str)]
         [] r.op \in {"clear_error", "config_arm"} -> [s EXCEPT !.error = None]
         [] r.op = "reconfigure" ->
               reconfigured(r.key, s, "a", "u", r.cfg.rate, r.cfg.source)

published(r) ==
    CASE r.op = "set" -> Update(r.key, r.val)
      [] r.op = "set_error" -> Error(r.key)
      [] r.op \in {"clear_error", "config_arm"} -> ClearError(r.key)
      [] r.op = "reconfigure" -> Config(r.key)

\* sensor_storage.get_mut(key) of set, set_error, clear_error and
\* reconfigure, and what the call does to the entry: the shard's write lock
\* is taken; for a key that is not there it is released at once and the
\* call returns, as does set_error with the error the sensor has already.
get_mut(t, ok) ==
    LET r == running[t]
        s == determine_shard(r.key)
    IN /\ r.pc = "get_mut"
       /\ Free(s)
       /\ IF r.key \notin DOMAIN sensor_storage
          THEN /\ LockStep(t, Resting, locks)
               /\ UNCHANGED <<sensor_storage, database, samples>>
          ELSE IF r.op = "set_error" /\ ~error_changes(r.key, r.str)
          THEN /\ LockStep(t, [r EXCEPT !.pc = "drop"],
                           [locks EXCEPT !.shards[s].writer = RefMut(t)])
               /\ UNCHANGED <<sensor_storage, database, samples>>
          ELSE /\ LockStep(t, [r EXCEPT !.pc = "lock_followers", !.msg = published(r)],
                           [locks EXCEPT !.shards[s].writer = RefMut(t)])
               /\ sensor_storage' = [sensor_storage EXCEPT ![r.key] = written(r)]
               /\ samples' = IF r.op = "set"
                             THEN [samples EXCEPT ![r.key] = <<r.val>> \o @]
                             ELSE samples
               /\ database' = IF r.op = "reconfigure"
                              THEN save_sensor(database, r.key, written(r), ok)
                              ELSE database
       /\ NoBroadcast
       /\ UNCHANGED <<workers, allocated>>

\* broadcast: self.followers.lock()
lock_followers(t) ==
    /\ running[t].pc = "lock_followers"
    /\ locks.followers = 0
    /\ LockStep(t, [running[t] EXCEPT !.pc = "send"],
                [locks EXCEPT !.followers = t])
    /\ NoBroadcast
    /\ UNCHANGED <<sensor_storage, database, workers, samples, allocated>>

\* broadcast: the retain with its try_send, and the MutexGuard is dropped.
send(t) ==
    /\ running[t].pc = "send"
    /\ broadcast(running[t].msg)
    /\ running' = [running EXCEPT ![t].pc =
                      IF running[t].op = "add_virtual" THEN "lock_workers" ELSE "drop"]
    /\ locks' = [locks EXCEPT !.followers = 0]
    /\ call' = [NoCall EXCEPT !.op = "lock"]
    /\ UNCHANGED <<retention, sensor_storage, database, workers, adding, virt, now,
                   net, actuator, samples, allocated>>

\* The end of the if let block: the RefMut is dropped.
drop(t) ==
    LET s == determine_shard(running[t].key)
    IN /\ running[t].pc = "drop"
       /\ LockStep(t, Resting,
                   [locks EXCEPT !.shards[s].writer = IF @ = t THEN 0 ELSE @])
       /\ NoBroadcast
       /\ UNCHANGED <<sensor_storage, database, workers, samples, allocated>>

\* sensor_storage.get(key) of get and get_value, and of the Config arm of a
\* worker: the shard's read lock is taken; for a key that is not there it
\* is released at once.
get(t) ==
    LET r == running[t]
        s == determine_shard(r.key)
    IN /\ r.pc = "get"
       /\ locks.shards[s].writer = 0
       /\ IF r.key \in DOMAIN sensor_storage
          THEN LockStep(t, [r EXCEPT !.pc = "got"],
                        [locks EXCEPT !.shards[s].readers = @ \cup {t}])
          ELSE LockStep(t, IF r.op = "config_arm" THEN [r EXCEPT !.pc = "get_mut"]
                           ELSE Resting, locks)
       /\ NoBroadcast
       /\ UNCHANGED <<sensor_storage, database, workers, samples, allocated>>

\* The Ref is dropped; the Config arm goes on to clear_error.
got(t) ==
    LET r == running[t]
        s == determine_shard(r.key)
    IN /\ r.pc = "got"
       /\ LockStep(t, IF r.op = "config_arm" THEN [r EXCEPT !.pc = "get_mut"]
                      ELSE Resting,
                   [locks EXCEPT !.shards[s].readers = @ \ released(t)])
       /\ NoBroadcast
       /\ UNCHANGED <<sensor_storage, database, workers, samples, allocated>>

\* The greatest number among the keys of shard s and the numbers m holds.
max_with(m, s) ==
    LET ns == {to_usize(k) : k \in {k \in DOMAIN sensor_storage : determine_shard(k) = s}}
                 \cup {m[i] : i \in DOMAIN m}
    IN IF ns = {} THEN None ELSE Some(Max(ns))

\* sensor_storage.iter() of send_sensors and of next_virt_id: the iterator
\* takes the read lock of the next shard and then drops that of the shard
\* it comes from; behind the last shard it drops the last lock, and
\* next_virt_id has the greatest key it saw.
iter_next(t) ==
    LET r == running[t]
        k == r.at
        behind == [locks EXCEPT !.shards[k - 1].readers = @ \ {t}]
    IN /\ r.pc = "iter"
       /\ IF k < NShards
          THEN /\ locks.shards[k].writer = 0
               /\ LockStep(t, [r EXCEPT !.at = k + 1, !.max = max_with(r.max, k)],
                           [(IF k = 0 THEN locks ELSE behind)
                               EXCEPT !.shards[k].readers = @ \cup {t}])
               /\ UNCHANGED allocated
          ELSE /\ LockStep(t, IF r.op = "add_virtual"
                              THEN [r EXCEPT !.pc = "save",
                                             !.key = Virtual((IF r.max = None
                                                              THEN LastBuiltin
                                                              ELSE r.max[1]) + 1)]
                              ELSE Resting, behind)
               /\ allocated' = IF r.op = "add_virtual"
                               THEN Append(allocated,
                                       [id |-> Virtual((IF r.max = None THEN LastBuiltin
                                                        ELSE r.max[1]) + 1),
                                        present |-> {to_usize(x) :
                                                        x \in DOMAIN sensor_storage}])
                               ELSE allocated
       /\ NoBroadcast
       /\ UNCHANGED <<sensor_storage, database, workers, samples>>

\* add_virtual: save_sensor, which takes no lock of the registry.
save(t, ok) ==
    LET r == running[t]
    IN /\ r.pc = "save"
       /\ LockStep(t, [r EXCEPT !.pc = "insert"], locks)
       /\ database' = save_sensor(database, r.key, NewVirtual(r.key), ok)
       /\ NoBroadcast
       /\ UNCHANGED <<sensor_storage, workers, samples, allocated>>

\* add_virtual: sensor_storage.insert takes the shard's write lock and
\* drops it when it returns.
insert(t) ==
    LET r == running[t]
    IN /\ r.pc = "insert"
       /\ Free(determine_shard(r.key))
       /\ LockStep(t, [r EXCEPT !.pc = "lock_followers", !.msg = Config(r.key)],
                   locks)
       /\ sensor_storage' = (r.key :> NewVirtual(r.key)) @@ sensor_storage
       /\ samples' = (r.key :> <<>>) @@ samples
       /\ NoBroadcast
       /\ UNCHANGED <<database, workers, allocated>>

\* start_virtual_worker: Workers::global().lock()
lock_workers(t) ==
    /\ running[t].pc = "lock_workers"
    /\ locks.workers = 0
    /\ LockStep(t, [running[t] EXCEPT !.pc = "push"],
                [locks EXCEPT !.workers = t])
    /\ NoBroadcast
    /\ UNCHANGED <<sensor_storage, database, workers, samples, allocated>>

\* start_virtual_worker: wrk.push, and the MutexGuard is dropped.
push(t) ==
    /\ running[t].pc = "push"
    /\ LockStep(t, Resting, [locks EXCEPT !.workers = 0])
    /\ workers' = Append(workers, running[t].key)
    /\ NoBroadcast
    /\ UNCHANGED <<sensor_storage, database, samples, allocated>>

\* subscribe: self.followers.lock()
subscribe_lock(t) ==
    /\ running[t].pc = "subscribe"
    /\ locks.followers = 0
    /\ LockStep(t, [running[t] EXCEPT !.pc = "list_push"],
                [locks EXCEPT !.followers = t])
    /\ NoBroadcast
    /\ UNCHANGED <<sensor_storage, database, workers, samples, allocated>>

\* subscribe: list.push(tx), and the MutexGuard is dropped.
list_push(t) ==
    /\ running[t].pc = "list_push"
    /\ LockStep(t, Resting, [locks EXCEPT !.followers = 0])
    /\ chans' = Append(chans, NewChan(npub))
    /\ followers' = Append(followers, Len(chans) + 1)
    /\ UNCHANGED <<sensor_storage, database, workers, npub, samples, allocated>>

\* -------------------------------------------------------- specifications
\* What the callers pass: a poller sets samples of a built-in sensor, the
\* worker of a virtual sensor sets samples and sets and clears errors of its
\* sensor, a client sends SensorConfig and AddSensor frames. Virtual(7) is
\* present when the store holds it and absent when the store is empty.
SetIds == {Tmp0, Virtual(7)}
WorkerIds == {Virtual(7)}
Vals == {Neg, NaN, Fin(22)}
RingVals == {Neg, NaN, PosInf, Fin(22), Fin(23), Fin(24), Fin(25)}
Errs == {"e1", "e2"}
WireIds == {0, 7}
Aliases == {"a"}
Units == {"u"}
\* The optional fields of a SensorConfig frame: both absent, or both given.
Frames == {[rate |-> None, source |-> None],
           [rate |-> Some(50), source |-> Some("1")]}

\* The store a run starts from: empty, or left by a run in which a client
\* added Virtual(7) and renamed Tmp0.
SavedDb ==
    [builtin |-> (0 :> serialize(Sensor("b", "v", 1000, None))),
     virtual |-> (7 :> serialize(NewVirtual(Virtual(7))))]

\* The workers load_saved starts: one for every record of the sensor-virtual
\* tree, in the order of the keys.
loaded_workers(db) ==
    IF DOMAIN db.virtual = {} THEN <<>>
    ELSE CHOOSE w \in [1..Cardinality(DOMAIN db.virtual) ->
                          {from_usize(k) : k \in DOMAIN db.virtual}] :
            \A i, j \in DOMAIN w : i < j => to_usize(w[i]) < to_usize(w[j])

\* No worker thread has run yet.
NoThreads == [i \in {} |-> i]

\* The state after Sensors::new, load_saved on the store db and, as
\* load_saved calls it, start_virtual_worker for every stored virtual sensor.
InitWith(R, db) ==
    /\ retention \in R
    /\ database = db
    /\ sensor_storage = load_saved(db)
    /\ followers = <<>>
    /\ chans = <<>>
    /\ workers = loaded_workers(db)
    /\ adding = [t \in Threads |-> Idle]
    /\ virt = NoThreads
    /\ now = 0
    /\ net = NewSession
    /\ actuator = NoActuator
    /\ locks = NoLocks
    /\ running = [t \in Threads |-> Resting]
    /\ npub = 0
    /\ samples = [id \in DOMAIN load_saved(db) |-> <<>>]
    /\ allocated = <<>>
    /\ call = NoCall

Init == InitWith({MaxRetention}, EmptyDb) \/ InitWith({MaxRetention}, SavedDb)

Subscriber(max) ==
    \/ subscribe(max)
    \/ \E c \in 1..max : next(c)
    \/ \E c \in 1..max : drop_iterator(c)

\* The registry's atomic operations, called by pollers, workers and sessions.
Registry ==
    \/ \E key \in SetIds, value \in Vals : set(key, value)
    \/ \E key \in WorkerIds, error \in Errs : set_error(key, error)
    \/ \E key \in WorkerIds : clear_error(key)
    \/ \E id \in WireIds, alias \in Aliases, unit \in Units, cfg \in Frames,
          ok \in BOOLEAN :
          handle_sensor_config(id, alias, unit, cfg.rate, cfg.source, ok)

Next ==
    /\ UNCHANGED others
    /\ \/ npub < MaxPub /\ Registry
       \/ Subscriber(MaxSubs)

Spec == Init /\ [][Next]_vars

\* The ring buffer alone: every retention, samples of every class.
InitRing == InitWith(0..MaxRetention, EmptyDb)

NextRing ==
    /\ UNCHANGED others
    /\ npub < MaxSets
    /\ \E key \in SetIds, value \in RingVals : set(key, value)

SpecRing == InitRing /\ [][NextRing]_vars

\* Threads that run add_virtual side by side, and a subscriber.
AddVirtual ==
    \/ \E t \in Threads : add_virtual_id(t)
    \/ \E t \in Threads, ok \in BOOLEAN : add_virtual_save(t, ok)
    \/ \E t \in Threads : add_virtual_insert(t)
    \/ \E t \in Threads : add_virtual_broadcast(t)
    \/ \E t \in Threads : start_virtual_worker(t)

NextAdd ==
    /\ UNCHANGED others
    /\ \/ AddVirtual
       \/ Subscriber(MaxSubs)

SpecAdd == Init /\ [][NextAdd]_vars

\* A worker whose script does not compile: the store holds Virtual(7) with
\* a source that does not parse and a rate of ScriptRate ms, a poller sets
\* Tmp0, and a client gives the sensor a source that compiles or again one
\* that does not.
ScriptRate == 50
BrokenDb ==
    [builtin |-> <<>>,
     virtual |-> (7 :> serialize(Sensor("Virtual(7)", "?", ScriptRate, Some("("))))]
ScriptSources == {Some("("), Some("1.0")}
ScriptInstants == {k * (ScriptRate + 1) : k \in 1..MaxLaps}

NextScript ==
    \/ worker_init(1)
    \/ worker_subscribe(1)
    \/ worker_recv(1)
    \/ worker_act(1)
    \/ \E t \in ScriptInstants : Tick(t)
    \/ npub < MaxScriptPub /\ UNCHANGED others
         /\ set(Tmp0, Fin(22))
    \/ npub < MaxScriptPub /\ UNCHANGED others
         /\ \E source \in ScriptSources :
               reconfigure(Virtual(7), "a", "u", Some(ScriptRate), source, TRUE)

SpecScript == InitWith({MaxRetention}, BrokenDb) /\ [][NextScript]_vars

\* The conversions of SensorId alone, on every number up to MaxNr and on
\* every id a program can build, Virtual(n) with n below 7 included.
Numbers == 0..MaxNr
AllIds == BuiltinIds \cup {Virtual(n) : n \in Numbers}

ids_from_usize(nr) ==
    /\ call' = [NoCall EXCEPT !.op = "from_usize", !.n = nr, !.id = from_usize(nr)]
    /\ UNCHANGED <<retention, sensor_storage, database, followers, chans, workers,
                   adding, npub, samples, allocated>>

ids_to_usize(id) ==
    /\ call' = [NoCall EXCEPT !.op = "to_usize", !.id = id, !.n = to_usize(id)]
    /\ UNCHANGED <<retention, sensor_storage, database, followers, chans, workers,
                   adding, npub, samples, allocated>>

NextIds ==
    \/ (\E nr \in Numbers : ids_from_usize(nr)) /\ UNCHANGED others
    \/ (\E id \in AllIds : ids_to_usize(id)) /\ UNCHANGED others

SpecIds == InitWith({MaxRetention}, EmptyDb) /\ [][NextIds]_vars

\* add_virtual on every thread beside one subscriber that only listens.
NextOrder ==
    \/ (\E t \in Threads : add_virtual_id(t)) /\ UNCHANGED others
    \/ (\E t \in Threads, ok \in BOOLEAN : add_virtual_save(t, ok)) /\ UNCHANGED others
    \/ (\E t \in Threads : add_virtual_insert(t)) /\ UNCHANGED others
    \/ (\E t \in Threads : add_virtual_broadcast(t)) /\ UNCHANGED others
    \/ (\E t \in Threads : start_virtual_worker(t)) /\ UNCHANGED others
    \/ subscribe(1) /\ UNCHANGED others

SpecOrder == InitWith({MaxRetention}, EmptyDb) /\ [][NextOrder]_vars

\* A process that is ended and started again on its store: add_virtual on
\* one thread, reconfigure of a built-in and of a virtual sensor, samples
\* and errors, and the restart.
\* The process ends and starts again on the same store: Sensors::new and
\* load_saved, which starts a worker for every stored virtual sensor. No
\* thread and no subscriber of the old process is left.
restart ==
    /\ call.op # "restart"
    /\ sensor_storage' = load_saved(database)
    /\ workers' = loaded_workers(database)
    /\ followers' = <<>>
    /\ chans' = <<>>
    /\ adding' = [t \in Threads |-> Idle]
    /\ samples' = [id \in DOMAIN load_saved(database) |-> <<>>]
    /\ call' = [NoCall EXCEPT !.op = "restart"]
    /\ UNCHANGED <<retention, database, npub, allocated>>

RestartIds == {Tmp0, Virtual(7)}

NextRestart ==
    \/ add_virtual_id(1) /\ UNCHANGED others
    \/ (\E ok \in BOOLEAN : add_virtual_save(1, ok)) /\ UNCHANGED others
    \/ add_virtual_insert(1) /\ UNCHANGED others
    \/ add_virtual_broadcast(1) /\ UNCHANGED others
    \/ start_virtual_worker(1) /\ UNCHANGED others
    \/ /\ npub < MaxRestartPub
       /\ \E key \in RestartIds, cfg \in Frames, ok \in BOOLEAN :
             reconfigure(key, "b", "v", cfg.rate, cfg.source, ok)
       /\ UNCHANGED others
    \/ /\ npub < MaxRestartPub
       /\ set(Virtual(7), Fin(22))
       /\ UNCHANGED others
    \/ /\ npub < MaxRestartPub
       /\ set_error(Virtual(7), "e1")
       /\ UNCHANGED others
    \/ restart /\ UNCHANGED others

SpecRestart == Init /\ [][NextRestart]_vars

\* The bus under load. A run starts where a first subscriber has subscribed
\* and not read while a poller set Prefill samples of Tmp0; from there the
\* poller goes on publishing, and subscribers subscribe, read, let their
\* queue fill or drop it.
Filled ==
    [i \in 1..(IF Prefill < MaxRetention THEN Prefill ELSE MaxRetention) |-> Fin(22)]

InitBus ==
    /\ retention = MaxRetention
    /\ database = EmptyDb
    /\ sensor_storage = [load_saved(EmptyDb) EXCEPT ![Tmp0].values = Filled]
    /\ followers = <<1>>
    /\ chans = <<[NewChan(0) EXCEPT !.queue =
                    [i \in 1..Prefill |-> [msg |-> Update(Tmp0, Fin(22)), seq |-> i]]]>>
    /\ workers = <<>>
    /\ adding = [t \in Threads |-> Idle]
    /\ virt = NoThreads
    /\ now = 0
    /\ net = NewSession
    /\ actuator = NoActuator
    /\ locks = NoLocks
    /\ running = [t \in Threads |-> Resting]
    /\ npub = Prefill
    /\ samples = [id \in BuiltinIds |->
                    IF id = Tmp0 THEN [i \in 1..Prefill |-> Fin(22)] ELSE <<>>]
    /\ allocated = <<>>
    /\ call = [NoCall EXCEPT !.op = "set", !.id = Tmp0, !.val = Fin(22),
                             !.pubs = 1, !.msg = Update(Tmp0, Fin(22))]

NextBus ==
    /\ UNCHANGED others
    /\ \/ npub < Prefill + MaxBusPub /\ set(Tmp0, Fin(22))
       \/ Subscriber(MaxBusSubs)

SpecBus == InitBus /\ [][NextBus]_vars

\* The same run from the start, to show that InitBus is a state it reaches.
NextFill ==
    /\ UNCHANGED others
    /\ \/ npub < Prefill /\ set(Tmp0, Fin(22))
       \/ npub = 0 /\ subscribe(1)

SpecFill == InitWith({MaxRetention}, EmptyDb) /\ [][NextFill]_vars


\* The worker of Virtual(7), loaded from the store with the script
\* sensor(0), beside the pollers of Tmp0 and Tmp1, a client that reconfigures
\* or removes virtual sensors, and the clock.
PolledIds == {Tmp0, Tmp1}
\* The instants at which something happens: lap after lap, the moment
\* exactly DefaultVirtRate ms after the last one and the moment after that.
Instants ==
    {k * (DefaultVirtRate + 1) : k \in 0..MaxLaps} \cup
    {k * (DefaultVirtRate + 1) + DefaultVirtRate : k \in 0..(MaxLaps - 1)}
WorkerFrames == {[rate |-> Some(50), source |-> Some("1.0")]}
RemovedIds == {Virtual(7), Virtual(8)}

Worker ==
    \/ \E i \in 1..Len(workers) : worker_init(i)
    \/ \E i \in 1..Len(workers) : worker_subscribe(i)
    \/ \E i \in 1..Len(workers) : worker_recv(i)
    \/ \E i \in 1..Len(workers) : worker_act(i)

NextWorker ==
    \/ Worker
    \/ \E t \in Instants : Tick(t)
    \/ npub < MaxWorkerPub /\ UNCHANGED others
         /\ \E key \in PolledIds : set(key, Fin(22))
    \/ npub < MaxWorkerPub /\ UNCHANGED others
         /\ \E cfg \in WorkerFrames :
               reconfigure(Virtual(7), "a", "u", cfg.rate, cfg.source, TRUE)
    \/ npub < MaxWorkerPub /\ \E id \in RemovedIds : remove(id)

SpecWorker == InitWith({MaxRetention}, SavedDb) /\ [][NextWorker]_vars

\* The worker under load. A run starts where the worker of Virtual(7) is in
\* its loop and has not run while a poller set Prefill samples of Tmp0; from
\* there the poller and a client that removes virtual sensors publish, the
\* clock runs, and the worker, which the scheduler lets run again and again,
\* works its queue off.
InitRemove ==
    /\ retention = MaxRetention
    /\ database = SavedDb
    /\ sensor_storage = [load_saved(SavedDb) EXCEPT ![Tmp0].values = Filled]
    /\ followers = <<1>>
    /\ chans = <<[NewChan(0) EXCEPT !.queue =
                    [i \in 1..Prefill |-> [msg |-> Update(Tmp0, Fin(22)), seq |-> i]]]>>
    /\ workers = loaded_workers(SavedDb)
    /\ adding = [t \in Threads |-> Idle]
    /\ virt = (1 :> [pc |-> "loop", id |-> Virtual(7), deps |-> {},
                     rate |-> DefaultVirtRate,
                     compiled |-> compile(Some("sensor(0)")),
                     last |-> 0, chan |-> 1, val |-> Fin(0), err |-> "",
                     out |-> "", evaluated |-> None, succeeded |-> None,
                     owed |-> FALSE])
    /\ now = 0
    /\ net = NewSession
    /\ actuator = NoActuator
    /\ locks = NoLocks
    /\ running = [t \in Threads |-> Resting]
    /\ npub = Prefill
    /\ samples = [id \in DOMAIN load_saved(SavedDb) |->
                    IF id = Tmp0 THEN [i \in 1..Prefill |-> Fin(22)] ELSE <<>>]
    /\ allocated = <<>>
    /\ call = [NoCall EXCEPT !.op = "set", !.id = Tmp0, !.val = Fin(22),
                             !.pubs = 1, !.msg = Update(Tmp0, Fin(22))]

WorkerRuns ==
    \/ worker_recv(1)
    \/ worker_act(1)

NextRemove ==
    \/ WorkerRuns
    \/ \E t \in Instants : Tick(t)
    \/ npub < Prefill + MaxRemovePub /\ set(Tmp0, Fin(22)) /\ UNCHANGED others
    \/ npub < Prefill + MaxRemovePub /\ \E id \in RemovedIds : remove(id)

SpecRemove == InitRemove /\ [][NextRemove]_vars /\ WF_vars(WorkerRuns)

\* The same run from the start, to show that InitRemove is a state it reaches.
NextRemoveFill ==
    \/ npub = 0 /\ worker_init(1)
    \/ npub = 0 /\ worker_subscribe(1)
    \/ npub < Prefill /\ 1 \in DOMAIN virt /\ virt[1].pc = "loop"
         /\ set(Tmp0, Fin(22)) /\ UNCHANGED others

SpecRemoveFill == InitWith({MaxRetention}, SavedDb) /\ [][NextRemoveFill]_vars

\* One connection. The client sends frames that are well formed, too long,
\* cut short, of an unknown id or of a payload that does not decode; the
\* sender of the session's broadcast channel sends events of every kind.
NetFrames ==
    {Frame(1, 0, Empty, "none"),
     Frame(1, MaxPayload, Junk, "none"),
     Frame(1, MaxPayload + 1, Junk, "none"),
     Frame(1, 0, Empty, "id"),
     Frame(0, 0, Empty, "none"),
     Frame(1, 4, Junk, "payload"),
     Frame(LastMessageId + 1, 0, Empty, "none"),
     Frame(4, 9, SensorConfigBody(7, "a", "u", Some(50), Some("1.0")), "none"),
     Frame(4, 3, Junk, "none"),
     Frame(5, 0, Empty, "none"),
     Frame(6, 5, SetPwmBody(0, Fin(1)), "none"),
     Frame(6, 5, SetPwmBody(2, Fin(1)), "none"),
     Frame(6, 3, Junk, "none")}

NetEvents ==
    {Update(Tmp0, Fin(22)), Config(Virtual(7)), Error(Virtual(7)),
     ClearError(Virtual(7)), Remove(Virtual(7))}

NextNet ==
    \/ \E ok \in BOOLEAN : send_hello(ok)
    \/ await_ready
    \/ \E ok \in BOOLEAN : send_sensors(ok)
    \/ net_subscribe
    \/ \E ok, lost \in BOOLEAN : on_update(ok, lost)
    \/ \E ok \in BOOLEAN : on_frame(ok)
    \/ \E ok \in BOOLEAN : on_add_sensor(ok)
    \/ \E f \in NetFrames : client_send(f)
    \/ client_close
    \/ \E m \in NetEvents : bus_send(m)
    \/ bus_overrun

SpecNet == InitWith({MaxRetention}, SavedDb) /\ [][NextNet]_vars

\* The same, with a runtime that polls the task of the session as long as
\* one of the branches of its select! is ready.
SessionRuns ==
    \/ \E ok, lost \in BOOLEAN : on_update(ok, lost)
    \/ \E ok \in BOOLEAN : on_frame(ok)

SpecNetFair == SpecNet /\ WF_vars(SessionRuns)

\* One connection whose client sets the PWM channels, beside the consumer
\* of the actuator queue.
PwmFrames ==
    {Frame(1, 0, Empty, "none"),
     Frame(6, 0, Empty, "none"),
     Frame(6, 5, SetPwmBody(0, Fin(1)), "none"),
     Frame(6, 5, SetPwmBody(1, Fin(2)), "none"),
     Frame(6, 5, SetPwmBody(2, Fin(1)), "none")}

NextPwm ==
    \/ \E ok \in BOOLEAN : send_hello(ok)
    \/ await_ready
    \/ \E ok \in BOOLEAN : send_sensors(ok)
    \/ net_subscribe
    \/ \E ok, lost \in BOOLEAN : on_update(ok, lost)
    \/ \E ok \in BOOLEAN : on_frame(ok)
    \/ \E f \in PwmFrames : client_send(f)
    \/ bus_send(Update(Tmp0, Fin(22)))
    \/ actuator_recv
    \/ actuator_drop

SpecPwm == InitWith({MaxRetention}, SavedDb) /\ [][NextPwm]_vars

\* The start of a worker beside a client that reconfigures its sensor: the
\* sensor is Virtual(7), added by add_virtual on an empty store or stored
\* and started by load_saved, and the client reconfigures it once
\* add_virtual has returned.
StartConfigs ==
    {[rate |-> Some(50), source |-> Some("1.0")],
     [rate |-> None, source |-> Some("sensor(9)")]}

Started == adding[1].pc = "idle" /\ Len(workers) = 1

NextStart ==
    \/ allocated = <<>> /\ workers = <<>> /\ add_virtual_id(1) /\ UNCHANGED others
    \/ (\E ok \in BOOLEAN : add_virtual_save(1, ok)) /\ UNCHANGED others
    \/ add_virtual_insert(1) /\ UNCHANGED others
    \/ add_virtual_broadcast(1) /\ UNCHANGED others
    \/ start_virtual_worker(1) /\ UNCHANGED others
    \/ worker_init(1)
    \/ worker_subscribe(1)
    \/ worker_recv(1)
    \/ worker_act(1)
    \/ /\ Started
       /\ npub < MaxStartPub
       /\ \E cfg \in StartConfigs :
             reconfigure(Virtual(7), "a", "u", cfg.rate, cfg.source, TRUE)
       /\ UNCHANGED others

SpecStart == Init /\ [][NextStart]_vars

\* The same, with a scheduler that runs the worker's thread as long as it
\* has a step to take.
StartRuns ==
    \/ worker_init(1)
    \/ worker_subscribe(1)
    \/ worker_recv(1)
    \/ worker_act(1)

SpecStartFair == SpecStart /\ WF_vars(StartRuns)

\* The registry under its locks. Thread 1 runs the sessions' task, which
\* calls reconfigure and add_virtual for the frames of its clients and
\* walks the registry in send_sensors; every other thread runs a worker or
\* a poller, which subscribes, sets a sample or an error, reads a sample as
\* the script's sensor function does, and runs the Config arm, on a sensor
\* of either shard and on one that is not there.
Calling(op, pc, key) == [Resting EXCEPT !.op = op, !.pc = pc, !.key = key]

SessionCalls ==
    {[Calling("reconfigure", "get_mut", Virtual(7)) EXCEPT
         !.cfg = [rate |-> Some(50), source |-> Some("1.0")]],
     Calling("reconfigure", "get_mut", Virtual(9)),
     Calling("add_virtual", "iter", Tmp0),
     Calling("iter", "iter", Tmp0)}

WorkerCalls ==
    {[Calling("set", "get_mut", Tmp0) EXCEPT !.val = Fin(1)],
     [Calling("set", "get_mut", Virtual(7)) EXCEPT !.val = Fin(1)],
     [Calling("set_error", "get_mut", Virtual(7)) EXCEPT !.str = "e1"],
     Calling("config_arm", "get", Virtual(7)),
     Calling("get_value", "get", Tmp0),
     Calling("subscribe", "subscribe", Tmp0)}

CallsOf(t) == IF t = 1 THEN SessionCalls ELSE WorkerCalls

\* The calls in progress that publish when they find their sensor.
Publishing ==
    Cardinality({t \in Threads : running[t].op \in
                    {"set", "set_error", "config_arm", "reconfigure", "add_virtual"}})

Subscribing == Cardinality({t \in Threads : running[t].op = "subscribe"})

NextLocks ==
    \/ \E t \in Threads : \E c \in CallsOf(t) :
          /\ c.op \in {"set", "set_error", "config_arm", "reconfigure", "add_virtual"}
                => npub + Publishing < MaxLockPub
          /\ c.op = "subscribe" => Len(chans) + Subscribing < MaxSubs
          /\ enter(t, c)
    \/ \E t \in Threads : get_mut(t, TRUE)
    \/ \E t \in Threads : lock_followers(t)
    \/ \E t \in Threads : send(t)
    \/ \E t \in Threads : drop(t)
    \/ \E t \in Threads : get(t)
    \/ \E t \in Threads : got(t)
    \/ \E t \in Threads : iter_next(t)
    \/ \E t \in Threads : save(t, TRUE)
    \/ \E t \in Threads : insert(t)
    \/ \E t \in Threads : lock_workers(t)
    \/ \E t \in Threads : push(t)
    \/ \E t \in Threads : subscribe_lock(t)
    \/ \E t \in Threads : list_push(t)

SpecLocks == InitWith({MaxRetention}, SavedDb) /\ [][NextLocks]_vars

\* Threads that set samples of Tmp0, and of Virtual(7) in another shard,
\* lock by lock, beside threads that subscribe.
SetCalls ==
    {[Calling("set", "get_mut", Tmp0) EXCEPT !.val = v] : v \in {Fin(1), Fin(2)}} \cup
    {[Calling("set", "get_mut", Virtual(7)) EXCEPT !.val = Fin(3)],
     Calling("subscribe", "subscribe", Tmp0)}

NextSet ==
    \/ \E t \in Threads, c \in SetCalls :
          /\ c.op = "set" => npub + Publishing < MaxLockPub
          /\ c.op = "subscribe" => Len(chans) + Subscribing < MaxSubs
          /\ enter(t, c)
    \/ \E t \in Threads : get_mut(t, TRUE)
    \/ \E t \in Threads : lock_followers(t)
    \/ \E t \in Threads : send(t)
    \/ \E t \in Threads : drop(t)
    \/ \E t \in Threads : subscribe_lock(t)
    \/ \E t \in Threads : list_push(t)

SpecSet == InitWith({MaxRetention}, SavedDb) /\ [][NextSet]_vars

\* One connection from its accept on, beside a poller that sets samples
\* of Tmp0 at any time.
NextSnap ==
    \/ \E ok \in BOOLEAN : send_hello(ok)
    \/ await_ready
    \/ \E ok \in BOOLEAN : send_sensors(ok)
    \/ net_subscribe
    \/ \E ok \in BOOLEAN : on_update(ok, FALSE)
    \/ client_send(Frame(1, 0, Empty, "none"))
    \/ npub < MaxSnapPub /\ (\E v \in {Fin(1), Fin(2)} : poll_set(v))

SpecSnap == InitWith({MaxRetention}, SavedDb) /\ [][NextSnap]_vars

\* ================================================================ claims

\* ---- the ring buffer (SpecRing)

\* C1: for every sensor and every retention R, R = 0 included, the history
\* never holds more than R samples.
C1_RingBound ==
    \A id \in DOMAIN sensor_storage : Len(sensor_storage[id].values) <= retention

\* What the code keeps instead: at most max(R, 1) samples.
RingBoundAtLeastOne ==
    \A id \in DOMAIN sensor_storage :
        Len(sensor_storage[id].values) <= (IF retention = 0 THEN 1 ELSE retention)

Newest(log, n) == SubSeq(log, 1, IF Len(log) < n THEN Len(log) ELSE n)

\* C2: a history is the most recent min(n, R) of the n samples accepted for
\* its sensor, newest first, and get_value returns its front.
C2_NewestFirst ==
    \A id \in DOMAIN sensor_storage :
        /\ sensor_storage[id].values = Newest(samples[id], retention)
        /\ get_value(id) = IF Newest(samples[id], retention) = <<>>
                           THEN None
                           ELSE Some(Head(samples[id]))

\* The same for max(R, 1) in place of R, which is what the code keeps.
NewestFirstAtLeastOne ==
    \A id \in DOMAIN sensor_storage :
        LET kept == Newest(samples[id], IF retention = 0 THEN 1 ELSE retention)
        IN /\ sensor_storage[id].values = kept
           /\ get_value(id) = IF kept = <<>> THEN None ELSE Some(Head(samples[id]))

\* Scenario S1: retention 3 and the sets 22, 23, 24, 25 of Tmp0.
S1_Reached ==
    /\ retention = 3
    /\ samples[Tmp0] = <<Fin(25), Fin(24), Fin(23), Fin(22)>>
    /\ sensor_storage[Tmp0].values = <<Fin(25), Fin(24), Fin(23)>>

\* C4: every sample held in a history is finite and nonnegative.
C4_FiniteNonnegative ==
    \A id \in DOMAIN sensor_storage :
        \A i \in 1..Len(sensor_storage[id].values) :
            sensor_storage[id].values[i].cls = "fin"

\* What the code guarantees: no history holds a negative sample or a NaN.
NeverNegativeOrNaN ==
    \A id \in DOMAIN sensor_storage :
        \A i \in 1..Len(sensor_storage[id].values) :
            sensor_storage[id].values[i].cls \in {"fin", "inf"}

\* ---- the registry's operations (Spec)

\* C3: a set whose value is negative or NaN changes nothing: not the
\* registry, not the store, not the follower list, not any queue, and it
\* publishes nothing.
C3_RejectedSetIsNoop ==
    [][(call'.op = "set" /\ call'.val.cls \in {"neg", "nan"})
        => UNCHANGED <<prog, npub>>]_vars

C3_Witness ==
    /\ call.op = "set"
    /\ call.val = NaN
    /\ call.id \in DOMAIN sensor_storage
    /\ Len(followers) = 1
    /\ Len(chans[1].queue) = 1

\* C5: set_error publishes Error(id), once, exactly when the string differs
\* from the sensor's error; a set_error right after a set_error of the same
\* sensor and string publishes nothing and leaves the registry as it is, so
\* the two calls together publish what the first one did, one Error(id).
C5_ErrorDedup ==
    [][call'.op = "set_error" =>
        LET key == call'.id
            present == key \in DOMAIN sensor_storage
            same == present /\ sensor_storage[key].error = Some(call'.str)
        IN /\ (present /\ ~same) =>
                /\ npub' = npub + 1
                /\ call'.pubs = 1
                /\ call'.msg = Error(key)
                /\ sensor_storage' =
                       [sensor_storage EXCEPT ![key].error = Some(call'.str)]
           /\ (~present \/ same) =>
                /\ call'.pubs = 0
                /\ UNCHANGED <<sensor_storage, followers, chans, npub>>
           /\ (call.op = "set_error" /\ call.id = key /\ call.str = call'.str) =>
                /\ call.pubs + call'.pubs <= 1
                /\ present => (call'.pubs = 0 /\ UNCHANGED <<sensor_storage, npub>>)
    ]_vars

\* One subscriber, two set_error calls of one string, one Error queued.
C5_Witness ==
    /\ call.op = "set_error"
    /\ call.pubs = 0
    /\ call.id \in DOMAIN sensor_storage
    /\ sensor_storage[call.id].error = Some(call.str)
    /\ npub = 1
    /\ Len(followers) = 1
    /\ chans[1].since = 0
    /\ chans[1].last = 0
    /\ chans[1].queue = <<[msg |-> Error(call.id), seq |-> 1]>>

\* C6: no step changes a built-in sensor's rate or source, and a record
\* stored for a built-in sensor holds the rate and source the sensor had;
\* a reconfigure of a built-in sensor changes its alias and unit to the
\* ones passed and nothing else of the registry.
C6_BuiltinRateSourceKept ==
    [][\A id \in BuiltinIds :
        /\ id \in DOMAIN sensor_storage'
        /\ (call'.op = "reconfigure" /\ call'.id = id) =>
              sensor_storage' = [sensor_storage EXCEPT ![id].alias = call'.alias,
                                                       ![id].unit = call'.unit]
        /\ sensor_storage'[id].rate = sensor_storage[id].rate
        /\ sensor_storage'[id].source = sensor_storage[id].source
        /\ to_usize(id) \in DOMAIN database'.builtin =>
              /\ database'.builtin[to_usize(id)].rate = sensor_storage[id].rate
              /\ database'.builtin[to_usize(id)].source = sensor_storage[id].source
    ]_vars

\* A SensorConfig frame for Tmp0 with a rate and a source went through and
\* was stored: alias and unit are the frame's, rate and source the default's.
C6_Witness ==
    /\ call.op = "reconfigure"
    /\ call.id = Tmp0
    /\ call.rate = Some(50)
    /\ call.source = Some("1")
    /\ sensor_storage[Tmp0].alias = "a"
    /\ sensor_storage[Tmp0].unit = "u"
    /\ sensor_storage[Tmp0].rate = 1000
    /\ sensor_storage[Tmp0].source = None
    /\ 0 \in DOMAIN database.builtin
    /\ database.builtin[0] = [alias |-> "a", unit |-> "u", rate |-> 1000, source |-> None]


\* ---- add_virtual (SpecAdd)

\* C7: every id add_virtual allocates is a Virtual(n) with n >= 7 and n
\* above the number of every sensor present when it was allocated, and no
\* two calls obtain the same id.
C7_FreshIds ==
    \A i \in 1..Len(allocated) :
        /\ is_virtual(allocated[i].id)
        /\ allocated[i].id.nr >= 7
        /\ \A k \in allocated[i].present : allocated[i].id.nr > k
        /\ \A j \in 1..Len(allocated) : j # i => allocated[j].id # allocated[i].id

\* What holds of each allocation taken alone.
AboveThePresent ==
    \A i \in 1..Len(allocated) :
        /\ is_virtual(allocated[i].id)
        /\ allocated[i].id.nr >= 7
        /\ \A k \in allocated[i].present : allocated[i].id.nr > k

\* ---- the bus (SpecBus, Spec)

\* C8: a publish that finds a live subscriber's queue full leaves that
\* queue as it is, and every other live subscriber with room gets the
\* message at the back of its queue.
C8_FullSkipsOnlyThatSubscriber ==
    [][npub' = npub + 1 =>
        \A c \in Range(followers) :
            /\ (chans[c].rx /\ Len(chans[c].queue) >= QueueCap) =>
                   chans'[c].queue = chans[c].queue
            /\ (chans[c].rx /\ Len(chans[c].queue) < QueueCap) =>
                   chans'[c].queue =
                       Append(chans[c].queue, [msg |-> call'.msg, seq |-> npub'])
    ]_vars

\* The last publish found subscriber a full, with its 25 messages still
\* there, and reached subscriber b.
C8_Witness ==
    /\ call.op = "set"
    /\ \E a \in Range(followers), b \in Range(followers) :
        /\ a # b
        /\ chans[a].rx /\ chans[b].rx
        /\ Len(chans[a].queue) = QueueCap
        /\ chans[a].queue[QueueCap].seq < npub
        /\ chans[b].queue # <<>>
        /\ chans[b].queue[Len(chans[b].queue)].seq = npub

\* C9: a subscriber's queue holds messages in publication order, each once,
\* all published after it subscribed and after the last one it received; a
\* subscriber never found full has, queued behind the last one it received,
\* every message published since; what enters a queue is the message just
\* published and what next returns is the front of the queue.
C9_InOrderExactlyOnce ==
    [][\A c \in DOMAIN chans' :
        LET ch == chans'[c]
            q == ch.queue
        IN /\ ch.since <= ch.last
           /\ \A i \in 1..Len(q) : ch.last < q[i].seq /\ q[i].seq <= npub'
           /\ \A i \in 1..(Len(q) - 1) : q[i].seq < q[i + 1].seq
           /\ (ch.rx /\ ~ch.missed /\ c \in Range(followers')) =>
                 \A i \in 1..Len(q) : q[i].seq = ch.last + i
           /\ (ch.rx /\ ~ch.missed /\ c \in Range(followers')) =>
                 ch.last + Len(q) = npub'
           /\ \A i \in 1..Len(q) :
                 \/ c \in DOMAIN chans /\ q[i] \in Range(chans[c].queue)
                 \/ /\ call'.pubs = 1
                    /\ npub' = npub + 1
                    /\ q[i] = [msg |-> call'.msg, seq |-> npub']
           /\ (call'.op = "next" /\ call'.n = c) =>
                 /\ call'.msg = Head(chans[c].queue).msg
                 /\ ch.last = Head(chans[c].queue).seq
                 /\ q = Tail(chans[c].queue)
    ]_vars

\* A subscriber has received the first message and holds the second, from
\* another publisher, in its queue.
C9_Witness ==
    /\ call.op = "next"
    /\ Len(followers) = 1
    /\ chans[1].since = 0
    /\ chans[1].last = 1
    /\ Len(chans[1].queue) = 1
    /\ chans[1].queue[1].seq = 2
    /\ chans[1].queue[1].msg.type # call.msg.type

\* A subscriber that subscribed after the first publish holds the second
\* message and not the first.
C9_LateSubscriber ==
    /\ Len(followers) = 1
    /\ chans[1].since = 1
    /\ Len(chans[1].queue) = 1
    /\ chans[1].queue[1].seq = 2

\* C10: a sender whose Receiver was dropped stays in the follower list
\* through every step that publishes nothing and is gone after the first
\* step that publishes; a sender that is gone never comes back and its
\* queue never grows again.
C10_LazyReaping ==
    [][\A c \in DOMAIN chans :
        /\ (c \in Range(followers) /\ npub' = npub) => c \in Range(followers')
        /\ (c \in Range(followers) /\ ~chans[c].rx /\ npub' > npub) =>
               c \notin Range(followers')
        /\ c \notin Range(followers) =>
               /\ c \notin Range(followers')
               /\ Len(chans'[c].queue) <= Len(chans[c].queue)
        /\ ~chans[c].rx => chans'[c] = chans[c]
    ]_vars

\* A Receiver was dropped with its queue full, and the publish after that
\* took its sender off the list.
C10_Witness ==
    /\ call.op = "set"
    /\ \E c \in DOMAIN chans :
        /\ ~chans[c].rx
        /\ c \notin Range(followers)
        /\ Len(chans[c].queue) = QueueCap


\* C11: the publish that finds a live subscriber's queue full takes that
\* subscriber off the follower list.
C11_SlowSubscriberReaped ==
    [][npub' = npub + 1 =>
        \A c \in Range(followers) :
            (chans[c].rx /\ Len(chans[c].queue) >= QueueCap) =>
                c \notin Range(followers')
    ]_vars

\* What the code does with it: a live subscriber stays on the list however
\* full its queue is.
LiveSubscriberKept ==
    [][\A c \in Range(followers) : chans[c].rx => c \in Range(followers')]_vars

\* C12: in every state, however many followers are full or never read, the
\* publish of each mutator (set, set_error, clear_error, reconfigure and the
\* broadcast of add_virtual) can take its step at once.
C12_PublishNeverBlocks ==
    /\ ENABLED set(Tmp0, Fin(22))
    /\ ENABLED set_error(Tmp0, "e1")
    /\ ENABLED clear_error(Tmp0)
    /\ ENABLED reconfigure(Tmp0, "a", "u", None, None, TRUE)
    /\ ENABLED broadcast(Config(next_virt_id))

\* The only follower is live, never read, and was found full by a set that
\* completed all the same.
C12_Witness ==
    /\ call.op = "set"
    /\ call.pubs = 1
    /\ Len(followers) = 1
    /\ chans[followers[1]].rx
    /\ chans[followers[1]].missed
    /\ chans[followers[1]].last = chans[followers[1]].since
    /\ Len(chans[followers[1]].queue) = QueueCap

\* ---- the virtual worker (SpecWorker)

\* C13: a worker whose dependency set is not empty and does not hold s
\* ignores Update(s, _): no evaluation, no call into the registry, its
\* locals as they were, whatever the clock says.
C13_TriggerGating ==
    [][(call'.op = "worker_recv" /\ call'.msg.type = "Update") =>
        LET w == virt[call'.n]
        IN (w.deps # {} /\ call'.msg.id \notin w.deps) =>
              /\ call'.str = "ignored"
              /\ virt'[call'.n] = [w EXCEPT !.out = "ignored"]
              /\ UNCHANGED <<sensor_storage, database, followers, npub>>
    ]_vars

\* The worker of the script sensor(0) has evaluated, holds Tmp0 as its only
\* dependency, and has just ignored an Update of Tmp1 with its rate elapsed.
C13_Witness ==
    /\ call.op = "worker_recv"
    /\ call.msg.type = "Update"
    /\ call.msg.id = Tmp1
    /\ call.str = "ignored"
    /\ virt[call.n].deps = {Tmp0}
    /\ virt[call.n].succeeded # None
    /\ rate_elapsed(virt[call.n])

\* A step in which a worker runs eval_ast.
Evaluates(i) ==
    /\ call'.op = "worker_recv"
    /\ call'.n = i
    /\ call'.str \in {"eval_ok", "eval_err"}

\* C14: between two evaluations of a worker more than its rate elapses.
C14_OncePerRate ==
    [][\A i \in DOMAIN virt :
        (Evaluates(i) /\ virt[i].evaluated # None) =>
            now - virt[i].evaluated[1] > virt[i].rate
    ]_vars

\* C14 as the code has it: between an evaluation that returned a value and
\* the next evaluation more than the worker's rate elapses.
C14_OncePerRateAfterSuccess ==
    [][\A i \in DOMAIN virt :
        (Evaluates(i) /\ virt[i].succeeded # None) =>
            now - virt[i].succeeded[1] > virt[i].rate
    ]_vars

\* The worker has set a sample and, later, evaluated again.
C14_Witness ==
    /\ call.op = "worker_recv"
    /\ call.str = "eval_ok"
    /\ Virtual(7) \in DOMAIN samples
    /\ Len(samples[Virtual(7)]) = 1
    /\ virt[call.n].last < now

\* C15: once Remove(id) was published while the worker of id was in its
\* loop, the worker eventually leaves the loop; and a worker leaves its loop
\* only by receiving the Remove of its own id.
C15_RemoveStopsWorker ==
    /\ (1 \in DOMAIN virt /\ virt[1].owed) ~> (virt[1].pc = "exited")
    /\ [][\A i \in DOMAIN virt :
            (virt[i].pc # "exited" /\ virt'[i].pc = "exited") =>
                /\ call'.op = "worker_recv"
                /\ call'.n = i
                /\ call'.msg = Remove(virt[i].id)]_vars

\* What holds of it: a worker leaves its loop only by receiving the Remove
\* of its own id, and one that receives it leaves.
OnlyOwnRemoveStops ==
    [][\A i \in DOMAIN virt :
        /\ (virt[i].pc # "exited" /\ virt'[i].pc = "exited") =>
              /\ call'.op = "worker_recv"
              /\ call'.n = i
              /\ call'.msg = Remove(virt[i].id)
        /\ (call'.op = "worker_recv" /\ call'.n = i /\ call'.msg = Remove(virt[i].id)) =>
              virt'[i].pc = "exited"
    ]_vars

\* The Remove of the worker's sensor was published while the worker's queue
\* was full, and the worker has worked its queue off and waits.
C15_RemoveLost ==
    /\ 1 \in DOMAIN virt
    /\ virt[1].owed
    /\ virt[1].pc = "loop"
    /\ virt[1].id \notin DOMAIN sensor_storage
    /\ chans[virt[1].chan].queue = <<>>

\* C16: the frames of a session start with Hello; a Sensors frame is sent
\* only after a Ready frame was received; every Value frame comes after the
\* Hello and after a Sensors frame.
C16_HandshakeOrder ==
    /\ net.out # <<>> => net.out[1].id = "Hello"
    /\ \A i \in 1..Len(net.out) :
          /\ net.out[i].id = "Hello" => i = 1
          /\ net.out[i].id = "Sensors" => net.got_ready /\ i > 1
          /\ net.out[i].id = "Value" =>
                /\ net.out[1].id = "Hello"
                /\ \E j \in 2..(i - 1) : net.out[j].id = "Sensors"

\* A session that sent Hello, the first snapshot and then a Value.
C16_Witness ==
    /\ Len(net.out) >= 3
    /\ net.out[1].id = "Hello"
    /\ net.out[2].id = "Sensors"
    /\ net.out[3].id = "Value"
    /\ net.got_ready

\* A frame receive_package returns: nothing of it is missing, its id is
\* one of 0..6 and its data_len is at most 10 * 2^20.
Readable(f) == f.cut = "none" /\ f.id \in 0..6 /\ f.len <= 10485760

\* C17: when the first inbound frame is no Ready or cannot be read, the
\* session ends: it sends no snapshot, it does not subscribe, registry and
\* actuator queue stay as they are, and it does nothing afterwards.
C17_NoReadyEndsSession ==
    [][/\ (net.pc = "hello_sent" /\ net'.pc # "hello_sent"
             /\ ~(Readable(net'.did.frame) /\ net'.did.frame.id = 1)) =>
            /\ net'.pc = "closed"
            /\ net'.out = net.out
            /\ ~net'.rx.open
            /\ UNCHANGED <<prog, actuator, npub>>
       /\ net.pc = "closed" => UNCHANGED <<net, prog, actuator, npub>>]_vars

\* The handshake ended by a SensorConfig frame, or by a Ready too long.
C17_Witness ==
    /\ net.pc = "closed"
    /\ net.did.op = "await_ready"
    /\ net.did.frame.id = 4 \/ net.did.frame.len > 10485760
    /\ net.out = <<HelloFrame>>
    /\ sensor_storage = load_saved(SavedDb)

\* The snapshot of a registry: one record per sensor.
SnapshotOf(storage) ==
    [id |-> "Sensors",
     sensors |-> {[id |-> to_usize(k), rate |-> storage[k].rate,
                   alias |-> storage[k].alias, unit |-> storage[k].unit,
                   values |-> storage[k].values, source |-> storage[k].source,
                   error |-> storage[k].error] : k \in DOMAIN storage}]

\* The session receives the event e from its subscription.
Receives(e) ==
    /\ net.pc = "streaming"
    /\ net.armed
    /\ ~net.rx.lagged
    /\ net.rx.queue # <<>>
    /\ Head(net.rx.queue) = e
    /\ net'.rx.queue = Tail(net.rx.queue) \/ net'.pc = "closed"
    /\ ~net'.rx.lagged
    /\ net'.did.op = "on_update"
    /\ net'.nin = net.nin /\ net'.nev = net.nev

\* C18: a streaming session that receives Update(id, v) writes one Value
\* frame of id and v; one that receives Config, Error or ClearError writes
\* one snapshot of the registry as it is then; one that receives Remove
\* writes nothing. A write that fails ends the session.
C18_EventOutput ==
    [][\A e \in NetEvents : Receives(e) =>
         \/ /\ net'.pc = "streaming"
            /\ net'.out =
                 CASE e.type = "Update" ->
                        Append(net.out, [id |-> "Value", sensor |-> to_usize(e.id),
                                         value |-> e.value])
                   [] e.type \in {"Config", "Error", "ClearError"} ->
                        Append(net.out, SnapshotOf(sensor_storage))
                   [] OTHER -> net.out
         \/ /\ e.type # "Remove"
            /\ ~net'.did.wrote
            /\ net'.pc = "closed"
            /\ net'.out = net.out]_vars

\* After a SensorConfig frame renamed Virtual(7), an Error event made the
\* session write a snapshot that shows the new alias.
C18_Witness ==
    /\ net.pc = "streaming"
    /\ net.did.op = "on_update"
    /\ net.did.event.type = "Error"
    /\ net.did.wrote
    /\ Len(net.out) >= 3
    /\ net.out[Len(net.out)] = SnapshotOf(sensor_storage)
    /\ net.out[Len(net.out)] # net.out[2]
    /\ sensor_storage[Virtual(7)].alias = "a"

\* The streaming session reads an inbound frame.
Reads ==
    /\ net.pc = "streaming"
    /\ net'.nrd = net.nrd + 1
    /\ net'.did.aligned

\* C19: a streaming session that reads a frame with a data_len above
\* 10 * 2^20, or one the stream ends or fails in, is closed; a frame of
\* exactly 10 * 2^20 bytes is accepted.
C19_FramingErrorCloses ==
    [][Reads =>
        /\ (net'.did.frame.len > 10485760 \/ net'.did.frame.cut # "none") =>
              net'.pc = "closed"
        /\ (net'.did.frame.len = 10485760 /\ net'.did.frame.cut = "none"
              /\ net'.did.frame.id = 1) =>
              net'.pc = "streaming" /\ net'.log = net.log]_vars

\* What holds of it: such a frame changes neither registry nor actuator
\* queue, and a frame of exactly 10 * 2^20 bytes is accepted.
FramingErrorIgnored ==
    [][Reads =>
        /\ (net'.did.frame.len > 10485760 \/ net'.did.frame.cut # "none") =>
              /\ net'.pc = "streaming"
              /\ net'.log = Append(net.log, "Recv error")
              /\ UNCHANGED <<prog, actuator, npub>>
        /\ (net'.did.frame.len = 10485760 /\ net'.did.frame.cut = "none"
              /\ net'.did.frame.id = 1) =>
              net'.pc = "streaming" /\ net'.log = net.log]_vars

\* The session read a frame the stream ended in and is still streaming.
C19_StillStreaming ==
    /\ net.pc = "streaming"
    /\ net.did.op = "on_frame"
    /\ net.did.frame.cut = "payload"
    /\ net.log # <<>>

\* A well-framed SensorConfig or Pwm frame whose payload does not decode.
Undecodable(f) == Readable(f) /\ f.id \in {4, 6} /\ f.body.kind = "junk"

\* C20: a streaming session that reads a well-framed SensorConfig or Pwm
\* frame whose payload does not decode logs the error, leaves registry and
\* actuator queue as they are, and stays streaming.
C20_DecodeErrorTolerated ==
    [][(Reads /\ Undecodable(net'.did.frame)) =>
          /\ net'.pc = "streaming"
          /\ Len(net'.log) = Len(net.log) + 1
          /\ UNCHANGED <<prog, actuator, npub>>]_vars

\* What holds of it: registry and actuator queue stay as they are, and the
\* session is closed.
DecodeErrorCloses ==
    [][(Reads /\ Undecodable(net'.did.frame)) =>
          /\ net'.pc = "closed"
          /\ net'.log = net.log
          /\ UNCHANGED <<prog, actuator, npub>>]_vars

\* The session was closed by a SensorConfig frame that did not decode.
C20_ClosedByDecodeError ==
    /\ net.pc = "closed"
    /\ net.did.op = "on_frame"
    /\ net.did.frame.id = 4
    /\ Undecodable(net.did.frame)

\* A frame that is all there, of a data_len the server accepts and of an
\* id it does not handle: one of 0..3, or none of 0..6.
Unhandled(f) == f.cut = "none" /\ f.len <= 10485760 /\ f.id \notin {4, 5, 6}

\* C21: a streaming session that reads a frame of an id it does not handle
\* stays streaming, changes neither registry nor actuator queue, and has
\* read the whole frame: the next byte it reads is the first byte of the
\* frame the client wrote next.
C21_UnhandledIdIgnored ==
    [][(Reads /\ Unhandled(net'.did.frame)) =>
          /\ net'.pc = "streaming"
          /\ UNCHANGED <<prog, actuator, npub>>
          /\ Unclosed(net'.inbuf) = Flat(Tail(net.unread))]_vars

\* What holds of it: a frame of an id in 0..3 is read whole and ignored;
\* of a frame of an id outside 0..6 the session reads the two bytes of the
\* id, logs the Err and leaves data_len and payload in the stream.
UnknownIdLeftUnread ==
    [][(Reads /\ Unhandled(net'.did.frame)) =>
          /\ net'.pc = "streaming"
          /\ UNCHANGED <<prog, actuator, npub>>
          /\ IF net'.did.frame.id \in 0..3
             THEN /\ Unclosed(net'.inbuf) = Flat(Tail(net.unread))
                  /\ net'.log = net.log
             ELSE /\ net'.inbuf = Take(net.inbuf, 2).rest
                  /\ net'.log = Append(net.log, "Recv error")]_vars

\* After a frame of the id 7 the client wrote a SensorConfig frame for
\* Virtual(7). The session has read the bytes of both as two frames that
\* it refused, and Virtual(7) is as it was.
C21_NextFrameLost ==
    /\ net.pc = "streaming"
    /\ net.unread = <<Frame(7, 0, Empty, "none"),
                      Frame(4, 9, SensorConfigBody(7, "a", "u", Some(50), Some("1.0")),
                            "none")>>
    /\ net.log = <<"Recv error", "Recv error">>
    /\ net.did.why = "len"
    /\ sensor_storage[Virtual(7)].alias = "Virtual(7)"

PeerCloseLogged ==
    [][(net.pc = "streaming" /\ net.inbuf = <<Eof>> /\ net'.nrd = net.nrd + 1) =>
          /\ net'.pc = "streaming"
          /\ net'.rx.open
          /\ net'.inbuf = <<Eof>>
          /\ net'.log = Append(net.log, "Recv error")]_vars

C23_VirtualPersisted ==
    \A id \in DOMAIN sensor_storage :
        is_virtual(id) => to_usize(id) \in DOMAIN database.virtual

\* add_virtual has inserted a sensor whose record the store refused.
C23_Unsaved ==
    /\ call.op = "insert"
    /\ call.id \in DOMAIN sensor_storage
    /\ to_usize(call.id) \notin DOMAIN database.virtual

\* The registry after the restart holds the sensor of the reconfigure call
\* that came last before it, with the fields of the call, no values and no
\* error; one worker runs for it; and a built-in without a record has its
\* defaults.
Reloaded ==
    /\ call.id \in DOMAIN sensor_storage'
    /\ sensor_storage'[call.id] =
          [alias |-> call.alias, values |-> <<>>, unit |-> call.unit,
           rate |-> IF call.rate = None THEN DefaultVirtRate ELSE call.rate[1],
           source |-> call.source, error |-> None]
    /\ Cardinality({i \in DOMAIN workers' : workers'[i] = call.id}) = 1
    /\ \A b \in BuiltinIds :
          to_usize(b) \notin DOMAIN database.builtin =>
              sensor_storage'[b] = DefaultBuiltin(b)

C25_IdRoundTrip ==
    /\ call.op = "from_usize" => to_usize(call.id) = call.n
    /\ (call.op = "to_usize" /\ (call.id \in BuiltinIds \/ call.id.nr >= 7)) =>
            from_usize(call.n) = call.id
    /\ (call.op = "to_usize" /\ call.id \in BuiltinIds) => call.n \in 0..LastBuiltin
    /\ (call.op = "from_usize" /\ call.n \in 0..LastBuiltin) => call.id \in BuiltinIds
    /\ {to_usize(id) : id \in BuiltinIds} = 0..LastBuiltin
    /\ Cardinality(BuiltinIds) = LastBuiltin + 1

\* to_usize has run on the first virtual id, and from_usize leads back.
C25_Witness ==
    /\ call.op = "to_usize"
    /\ call.id = Virtual(7)
    /\ call.n = 7
    /\ from_usize(call.n) = Virtual(7)

\* ---- script errors (SpecScript, SpecWorker)

\* C26: a worker that has compiled a source in vain, when it was spawned
\* or on a Config of its sensor, has stored the compile error by the time
\* it is done with that event and waits for the next: the sensor's error is
\* present, with no Update needed.
C26_CompileErrorStored ==
    \A i \in DOMAIN virt :
        (/\ virt[i].pc = "loop"
         /\ ~virt[i].compiled.ok
         /\ virt[i].id \in DOMAIN sensor_storage) =>
            sensor_storage[virt[i].id].error # None

\* What the code does: the compile error is stored by the arm of the next
\* Update that passes the trigger.
CompileErrorStoredOnUpdate ==
    [][\A i \in DOMAIN virt :
          (/\ virt[i].pc = "set_error"
           /\ virt[i].out = "compile_err"
           /\ virt[i].id \in DOMAIN sensor_storage
           /\ virt'[i].pc = "loop") =>
              sensor_storage'[virt[i].id].error = Some("ParseError")]_vars

\* The worker has handled a Config that gave its sensor a source that does
\* not compile: it waits for the next message, and the sensor has no error.
C26_CompileErrorNotStored ==
    /\ 1 \in DOMAIN virt
    /\ virt[1].pc = "loop"
    /\ virt[1].out = "config"
    /\ ~virt[1].compiled.ok
    /\ call.op = "clear_error"
    /\ sensor_storage[Virtual(7)].source = Some("(")
    /\ sensor_storage[Virtual(7)].error = None

\* C27: while the last compile of a worker failed, the worker does not
\* evaluate and does not call set for its sensor, and it does not leave its
\* loop; only the Config arm, with a source that compiles, ends that.
C27_NoSetWhileCompileFailed ==
    [][\A i \in DOMAIN virt :
          ~virt[i].compiled.ok =>
              /\ virt[i].pc \in {"subscribe", "loop", "set_error", "clear_error"}
              /\ virt'[i].evaluated = virt[i].evaluated
              /\ ~(call'.op = "set" /\ call'.id = virt[i].id)
              /\ virt'[i].compiled.ok => virt'[i].out = "config"]_vars

\* The worker of a source that does not compile has met an Update that
\* passed the trigger, and stored the error instead of a sample.
C27_Witness ==
    /\ 1 \in DOMAIN virt
    /\ ~virt[1].compiled.ok
    /\ virt[1].pc = "loop"
    /\ virt[1].out = "compile_err"
    /\ virt[1].evaluated = None
    /\ sensor_storage[Virtual(7)].error = Some("ParseError")
    /\ sensor_storage[Virtual(7)].values = <<>>
    /\ sensor_storage[Tmp0].values # <<>>

\* C28: an evaluation that succeeds leaves the sensor without error: when
\* the worker's set has stored the sample, the error of an earlier failed
\* evaluation is gone, and no error stands beside a sample produced after
\* it.
C28_SuccessClearsError ==
    [][\A i \in DOMAIN virt :
          (/\ virt[i].pc = "set"
           /\ virt'[i].pc = "loop"
           /\ virt[i].id \in DOMAIN sensor_storage') =>
              sensor_storage'[virt[i].id].error = None]_vars

\* What the code does: the worker's set leaves the error as it was; only
\* the Config arm clears it.
SuccessKeepsError ==
    [][\A i \in DOMAIN virt :
          (/\ virt[i].pc = "set"
           /\ virt'[i].pc = "loop"
           /\ virt[i].id \in DOMAIN sensor_storage) =>
              sensor_storage'[virt[i].id].error = sensor_storage[virt[i].id].error]_vars

\* sensor(0) failed while Tmp0 had no sample and succeeded after its first:
\* Virtual(7) holds the sample and still the error of the failure.
C28_ErrorBesideSample ==
    /\ call.op = "set"
    /\ call.id = Virtual(7)
    /\ Virtual(7) \in DOMAIN sensor_storage
    /\ sensor_storage[Virtual(7)].values = <<Fin(22)>>
    /\ sensor_storage[Virtual(7)].error = Some("Could not find")

\* ---- workers of add_virtual (SpecAdd)

\* The workers started for the sensor id.
WorkersOf(id) == {i \in DOMAIN workers : workers[i] = id}

\* C29: a Virtual sensor of the registry never has two workers, and it has
\* one as soon as no add_virtual call for its id is on its way: load_saved
\* and add_virtual each start one worker per sensor, under every
\* interleaving of add_virtual calls.
C29_OneWorkerPerVirtual ==
    \A id \in DOMAIN sensor_storage :
        is_virtual(id) =>
            /\ Cardinality(WorkersOf(id)) <= 1
            /\ (\A t \in Threads : adding[t].pc = "idle" \/ adding[t].id # id) =>
                    Cardinality(WorkersOf(id)) = 1

\* What holds of the calls that got different ids: every started worker
\* belongs to a sensor of the registry, and a sensor whose id was given out
\* once has at most one.
OneWorkerPerAllocation ==
    \A id \in DOMAIN sensor_storage :
        (is_virtual(id) /\ Cardinality({i \in DOMAIN allocated : allocated[i].id = id}) <= 1) =>
            /\ Cardinality(WorkersOf(id)) <= 1
            /\ (\A t \in Threads : adding[t].pc = "idle" \/ adding[t].id # id) =>
                    Cardinality(WorkersOf(id)) = 1

\* Two add_virtual calls that ran side by side have returned: one sensor,
\* Virtual(7), and two workers for it.
C29_TwoWorkers ==
    /\ \A t \in Threads : adding[t].pc = "idle"
    /\ Virtual(7) \in DOMAIN sensor_storage
    /\ Virtual(8) \notin DOMAIN sensor_storage
    /\ workers = <<Virtual(7), Virtual(7)>>

\* ---- the steps of add_virtual (SpecOrder)

\* The steps of add_virtual in the order of the code.
AddVirtualOrder ==
    {<<"idle", "save">>, <<"save", "insert">>, <<"insert", "broadcast">>,
     <<"broadcast", "spawn">>, <<"spawn", "idle">>}

\* The store holds the record of the new sensor id.
Durable(db, id) ==
    /\ to_usize(id) \in DOMAIN db.virtual
    /\ db.virtual[to_usize(id)] = serialize(NewVirtual(id))

\* C30: add_virtual writes the record to the store, then inserts the sensor
\* in the registry, then publishes Config(id), then starts the worker: the
\* write comes while the call has not made the sensor visible, a sensor
\* whose write succeeded is durable whenever the call has made it visible,
\* Config(id) is published and received only with the sensor in the
\* registry, and the worker is started last.
C30_AddVirtualOrder ==
    [][/\ \A t \in Threads :
            LET a == adding[t]
                b == adding'[t]
            IN /\ a.pc # b.pc => <<a.pc, b.pc>> \in AddVirtualOrder
               /\ (a.pc = "save" /\ b.pc = "insert") =>
                      /\ sensor_storage' = sensor_storage
                      /\ b.saved => Durable(database', a.id)
               /\ (a.pc = "insert" /\ b.pc = "broadcast") =>
                      /\ a.id \in DOMAIN sensor_storage'
                      /\ npub' = npub
                      /\ workers' = workers
               /\ (a.pc = "broadcast" /\ b.pc = "spawn") =>
                      /\ a.id \in DOMAIN sensor_storage
                      /\ call'.msg = Config(a.id)
                      /\ npub' = npub + 1
                      /\ workers' = workers
               /\ (a.pc = "spawn" /\ b.pc = "idle") =>
                      /\ workers' = Append(workers, a.id)
                      /\ npub' = npub
                      /\ sensor_storage' = sensor_storage
               /\ (b.pc \in {"broadcast", "spawn"} /\ b.saved) =>
                      Durable(database', b.id)
       /\ \A c \in DOMAIN chans' : \A k \in DOMAIN chans'[c].queue :
            chans'[c].queue[k].msg.type = "Config" =>
                chans'[c].queue[k].msg.id \in DOMAIN sensor_storage']_vars

\* add_virtual has returned on a registry loaded from an empty store: the
\* record of Virtual(7) is in the store, the sensor in the registry, its
\* Config in a subscriber's queue and its worker started.
C30_Witness ==
    /\ call.op = "start_virtual_worker"
    /\ call.id = Virtual(7)
    /\ Durable(database, Virtual(7))
    /\ Virtual(7) \in DOMAIN sensor_storage
    /\ workers = <<Virtual(7)>>
    /\ \E c \in DOMAIN chans : \E k \in DOMAIN chans[c].queue :
          chans[c].queue[k].msg = Config(Virtual(7))

\* A Pwm frame that is all there and whose payload is a SetPwm message; an
\* empty payload is the message of channel 0 and value 0.
IsPwm(f) == f.id = 6 /\ f.cut = "none" /\ f.body.kind \in {"SetPwm", "empty"}

SetPwmOf(f) == IF f.body.kind = "SetPwm" THEN f.body ELSE SetPwmBody(0, Fin(0))

\* C31: a streaming session that reads a Pwm frame stays streaming and
\* leaves the registry alone; for channel 0 or 1 it makes one try_send of
\* (channel, value), which either puts the pair at the back of the actuator
\* queue or, when the queue is full or its consumer gone, changes nothing
\* and is logged; for any other channel it leaves the queue as it is and
\* logs nothing.
C31_PwmTrySend ==
    [][(Reads /\ IsPwm(net'.did.frame)) =>
          LET p == SetPwmOf(net'.did.frame)
              room == actuator.rx /\ Len(actuator.queue) < PwmCap
          IN /\ net'.pc = "streaming"
             /\ UNCHANGED <<prog, npub>>
             /\ IF p.channel \in {0, 1}
                THEN IF room
                     THEN /\ actuator' = [actuator EXCEPT !.queue =
                                 Append(@, [chan |-> p.channel, value |-> p.value])]
                          /\ net'.log = net.log
                     ELSE /\ actuator' = actuator
                          /\ net'.log = Append(net.log, "Could not send to PWM")
                ELSE /\ actuator' = actuator
                     /\ net'.log = net.log]_vars

\* The queue holds the set-point of the first Pwm frame, and the session
\* has read a second one, for channel 1, logged the try_send that failed
\* and is streaming.
C31_Witness ==
    /\ net.pc = "streaming"
    /\ net.did.op = "on_frame"
    /\ net.did.aligned
    /\ net.did.frame = Frame(6, 5, SetPwmBody(1, Fin(2)), "none")
    /\ net.log = <<"Could not send to PWM">>
    /\ actuator.rx
    /\ actuator.queue = <<[chan |-> 0, value |-> Fin(1)]>>

\* The worker of Virtual(7) holds the rate of its sensor and the compile
\* of its source, as the registry has them.
InSync ==
    /\ 1 \in DOMAIN virt
    /\ Virtual(7) \in DOMAIN sensor_storage
    /\ virt[1].rate = sensor_storage[Virtual(7)].rate
    /\ virt[1].compiled = compile(sensor_storage[Virtual(7)].source)

Reconfigured == call.op = "reconfigure" /\ call.id = Virtual(7)

\* C32: after every reconfigure of a virtual sensor whose add_virtual (or
\* load_saved) has returned, its worker comes to hold the rate and the
\* compile of the source that the registry holds, wherever the worker's
\* thread stood when the reconfigure ran.
C32_ReconfigureReachesWorker == Reconfigured ~> InSync

\* What holds: a reconfigure that runs before the worker's thread has read
\* its sensor, or after it has subscribed, reaches the worker.
ReconfigureReachesSubscribed ==
    (Reconfigured /\ (1 \notin DOMAIN virt \/ virt[1].pc # "subscribe")) ~> InSync

\* The worker has read rate and source and compiled, the reconfigure ran,
\* and then the worker subscribed: it waits on an empty channel with the
\* compile of the source the sensor had before.
C32_StaleWorker ==
    /\ call.op = "worker_subscribe"
    /\ virt[1].pc = "loop"
    /\ chans[virt[1].chan].queue = <<>>
    /\ sensor_storage[Virtual(7)].source = Some("1.0")
    /\ sensor_storage[Virtual(7)].rate = 50
    /\ virt[1].compiled = compile(Some("sensor(0)"))
    /\ virt[1].rate = DefaultVirtRate

\* The shards thread t holds a lock of.
HeldShards(t) ==
    {s \in Shards : locks.shards[s].writer = t \/ t \in locks.shards[s].readers}

\* The threads that wait for the write lock of shard s.
WaitingWriters(s) ==
    {u \in Threads : /\ running[u].pc \in {"get_mut", "insert"}
                     /\ determine_shard(running[u].key) = s
                     /\ ~Free(s)}

\* The threads the next step of thread t waits for: the holders of the
\* lock it takes and, for a read lock, the writers that wait for it too,
\* as a lock that prefers writers makes a reader wait for them.
Blockers(t) ==
    LET r == running[t]
        holders(s) == ({locks.shards[s].writer} \cup locks.shards[s].readers) \ {0}
        writers(s) == ({locks.shards[s].writer} \ {0}) \cup (WaitingWriters(s) \ {t})
    IN CASE r.pc \in {"get_mut", "insert"} -> holders(determine_shard(r.key))
         [] r.pc = "get" -> writers(determine_shard(r.key))
         [] r.pc = "iter" /\ r.at < NShards -> writers(r.at)
         [] r.pc \in {"lock_followers", "subscribe"} -> {locks.followers} \ {0}
         [] r.pc = "lock_workers" -> {locks.workers} \ {0}
         [] OTHER -> {}

\* Some threads wait for each other in a cycle.
CyclicWait ==
    \E S \in SUBSET Threads : S # {} /\ \A t \in S : Blockers(t) \cap S # {}

\* A thread that is about to take a shard's lock holds no mutex, one that
\* is about to take the mutex of followers does not hold that of Workers,
\* and one that is about to take the mutex of Workers holds no lock at all.
LockOrder ==
    \A t \in Threads :
       /\ running[t].pc \in {"get_mut", "insert", "get", "iter"} =>
             locks.followers # t /\ locks.workers # t
       /\ running[t].pc \in {"lock_followers", "subscribe"} => locks.workers # t
       /\ running[t].pc = "lock_workers" =>
             HeldShards(t) = {} /\ locks.followers # t

\* C33: the threads of the registry take its locks in one order, a shard's
\* lock before the mutex of followers and the mutex of Workers with no
\* other lock held, and no threads ever wait for each other in a cycle.
C33_NoCyclicWait == LockOrder /\ ~CyclicWait

\* The sessions' thread holds the write lock of Virtual(7)'s shard inside
\* reconfigure and waits for the mutex of followers, which a worker holds
\* inside set with the write lock of Tmp0's shard.
C33_Witness ==
    /\ running[1].op = "reconfigure"
    /\ running[1].pc = "lock_followers"
    /\ locks.shards[determine_shard(Virtual(7))].writer = 1
    /\ Blockers(1) = {2}
    /\ running[2].op = "set"
    /\ running[2].pc = "send"
    /\ locks.shards[determine_shard(Tmp0)].writer = 2
    /\ Blockers(2) = {}

\* The values of the Update(id, _) messages in the queue q, oldest first.
UpdatesOf(q, id) ==
    LET own == SelectSeq(q, LAMBDA x : x.msg.type = "Update" /\ x.msg.id = id)
    IN [i \in 1..Len(own) |-> own[i].msg.value]

\* The samples of id in the order of their insertion.
Inserted(id) == [i \in 1..Len(samples[id]) |-> samples[id][Len(samples[id]) + 1 - i]]

\* The threads that have inserted a sample of id and not yet published it.
Unpublished(id) ==
    {t \in Threads : /\ running[t].op = "set" /\ running[t].key = id
                     /\ running[t].pc \in {"lock_followers", "send"}}

IsSuffix(q, h) == Len(q) <= Len(h) /\ q = SubSeq(h, Len(h) - Len(q) + 1, Len(h))

\* C34: while threads set samples of one sensor concurrently, the
\* Update(id, v) messages in every subscriber's queue are the last
\* insertions into the sensor's history that were published, in the order
\* of the insertions; at most one insertion is not yet published, and the
\* newest sample is at the front of the history.
C34_PublishedInInsertionOrder ==
    \A id \in {Tmp0, Virtual(7)} :
       LET h == Inserted(id)
           done == SubSeq(h, 1, Len(h) - Cardinality(Unpublished(id)))
       IN /\ Cardinality(Unpublished(id)) <= 1
          /\ \A c \in DOMAIN chans : IsSuffix(UpdatesOf(chans[c].queue, id), done)
          /\ h # <<>> => Head(sensor_storage[id].values) = h[Len(h)]
          /\ npub = Len(Inserted(Tmp0)) + Len(Inserted(Virtual(7)))
                       - Cardinality(Unpublished(Tmp0) \cup Unpublished(Virtual(7)))

\* Thread 1 has set 1 and published it and still holds the entry; thread 2
\* waits for the entry to set 2; the subscriber has the one Update.
C34_Witness ==
    /\ running[1].op = "set" /\ running[1].val = Fin(1) /\ running[1].pc = "drop"
    /\ running[2].op = "set" /\ running[2].val = Fin(2) /\ running[2].pc = "get_mut"
    /\ running[2].key = Tmp0 /\ running[1].key = Tmp0
    /\ Blockers(2) = {1}
    /\ Len(chans) = 1
    /\ UpdatesOf(chans[1].queue, Tmp0) = <<Fin(1)>>
    /\ samples[Tmp0] = <<Fin(1)>>

\* The samples of Tmp0 in the frames the session wrote: those of its first
\* Sensors frame, newest first, and those of its Value frames, in the
\* order it wrote them.
SnapshotValues ==
    LET f == CHOOSE i \in 1..Len(net.out) : net.out[i].id = "Sensors"
        e == CHOOSE x \in net.out[f].sensors : x.id = to_usize(Tmp0)
    IN e.values

ValuesSent ==
    LET fs == SelectSeq(net.out, LAMBDA f : f.id = "Value")
    IN [i \in 1..Len(fs) |-> fs[i].value]

ValuesQueued ==
    LET q == SelectSeq(net.rx.queue, LAMBDA m : m.type = "Update")
    IN [i \in 1..Len(q) |-> q[i].value]

Rev(q) == [i \in 1..Len(q) |-> q[Len(q) + 1 - i]]

\* C35: once the session has written its first Sensors frame, every sample
\* set since the frame was built is in a Value frame it has written or in
\* an Update in its queue: the history of Tmp0 is the snapshot's with the
\* samples of the Value frames and of the queued Updates put in front.
C35_NoUpdateLost ==
    (/\ net.pc \in {"subscribe", "streaming"}
     /\ Len(samples[Tmp0]) < retention)
       => sensor_storage[Tmp0].values =
             Rev(ValuesQueued) \o Rev(ValuesSent) \o SnapshotValues

\* The session is streaming with an empty queue, and the registry holds a
\* sample of Tmp0 that is neither in the snapshot nor in a Value frame.
C35_UpdateMissed ==
    /\ net.pc = "streaming"
    /\ net.rx.queue = <<>>
    /\ SnapshotValues = <<>>
    /\ ValuesSent = <<>>
    /\ sensor_storage[Tmp0].values = <<Fin(1)>>

\* ---- reconfigure, and the calls on an absent id (Spec)

\* The step published message once: the publish count grew by one and every
\* follower whose queue took the message holds it once more, at the back.
PublishedOnce(message) ==
    /\ npub' = npub + 1
    /\ call'.pubs = 1
    /\ call'.msg = message
    /\ \A c \in DOMAIN chans :
          chans'[c].queue =
              IF c \in Range(followers) /\ try_send(c) = "Ok"
              THEN Append(chans[c].queue, [msg |-> message, seq |-> npub + 1])
              ELSE chans[c].queue

\* The step published nothing and left the registry and the store alone.
NoOp ==
    /\ call'.pubs = 0
    /\ UNCHANGED <<sensor_storage, database, followers, chans, npub, samples>>

\* C36: a reconfigure of a present Virtual sensor sets alias and unit to the
\* ones passed, the rate to the one passed or to 1000 when none is passed,
\* the source to the one passed or to none, and leaves the values, the error
\* and every other sensor as they were; it writes that record under the
\* sensor's number to sensor-virtual, or leaves the store as it was when the
\* write fails; and it publishes Config(id) once in both cases.
C36_ReconfigureReplaces ==
    [][(/\ call'.op = "reconfigure"
        /\ is_virtual(call'.id)
        /\ call'.id \in DOMAIN sensor_storage) =>
        LET key == call'.id
            rec == [alias |-> call'.alias, unit |-> call'.unit,
                    rate |-> IF call'.rate = None THEN 1000 ELSE call'.rate[1],
                    source |-> call'.source]
        IN /\ sensor_storage' =
                 [sensor_storage EXCEPT ![key].alias = rec.alias,
                                        ![key].unit = rec.unit,
                                        ![key].rate = rec.rate,
                                        ![key].source = rec.source]
           /\ call'.ok =>
                 /\ database'.virtual = (to_usize(key) :> rec) @@ database.virtual
                 /\ database'.builtin = database.builtin
           /\ ~call'.ok => database' = database
           /\ PublishedOnce(Config(key))
    ]_vars

\* Virtual(7) had rate 50 and source "1", as the store still says; a frame
\* without rate and source then set them to 1000 and none, its write to the
\* store failed, and its Config is the second message of the subscriber.
C36_Witness ==
    /\ call.op = "reconfigure"
    /\ call.id = Virtual(7)
    /\ call.rate = None
    /\ call.source = None
    /\ ~call.ok
    /\ call.pubs = 1
    /\ sensor_storage[Virtual(7)].rate = 1000
    /\ sensor_storage[Virtual(7)].source = None
    /\ database.virtual[7] = [alias |-> "a", unit |-> "u", rate |-> 50,
                              source |-> Some("1")]
    /\ npub = 2
    /\ Len(chans) = 1
    /\ chans[1].queue = <<[msg |-> Config(Virtual(7)), seq |-> 1],
                          [msg |-> Config(Virtual(7)), seq |-> 2]>>

\* C37: a set, set_error, clear_error or reconfigure of an id the registry
\* does not hold creates no sensor, writes nothing to the store and
\* publishes nothing; a clear_error of a sensor the registry holds sets its
\* error to none and publishes ClearError(id) once, with or without an
\* error set before.
C37_AbsentIsNoOp ==
    [][/\ (/\ call'.op \in {"set", "set_error", "clear_error", "reconfigure"}
           /\ call'.id \notin DOMAIN sensor_storage) => NoOp
       /\ (/\ call'.op = "clear_error"
           /\ call'.id \in DOMAIN sensor_storage) =>
              /\ sensor_storage' =
                    [sensor_storage EXCEPT ![call'.id].error = None]
              /\ database' = database
              /\ PublishedOnce(ClearError(call'.id))
    ]_vars

\* A SensorConfig frame for Virtual(7), whose write would have succeeded,
\* met a registry without Virtual(7): the store is still empty and the
\* subscriber's queue holds nothing.
C37_Witness ==
    /\ call.op = "reconfigure"
    /\ call.id = Virtual(7)
    /\ call.ok
    /\ call.pubs = 0
    /\ Virtual(7) \notin DOMAIN sensor_storage
    /\ database = EmptyDb
    /\ npub = 0
    /\ Len(chans) = 1
    /\ chans[1].queue = <<>>

\* Virtual(7) is present and never had an error: the first publish of the
\* run is the ClearError of a clear_error.
C37_ClearedWithoutError ==
    /\ call.op = "clear_error"
    /\ call.id = Virtual(7)
    /\ call.pubs = 1
    /\ sensor_storage[Virtual(7)].error = None
    /\ npub = 1
    /\ Len(chans) = 1
    /\ chans[1].queue = <<[msg |-> ClearError(Virtual(7)), seq |-> 1]>>

==============================================================================
